---- MODULE Spec2Model ----
(***************************************************************************)
(* Walk sessions, guardian resolution and panic fan-out of the EnaZeda     *)
(* backend (routes/walk, routes/contacts, routes/notifications and the     *)
(* Walk / Notification schemas), as a state machine over the document      *)
(* stores.  Every `await` on a store is one atomic step; a handler that    *)
(* awaits more than once is a sequence of steps of one in-flight request.  *)
(***************************************************************************)
EXTENDS Integers, Sequences, FiniteSets, TLC

(***************************************************************************)
(* Bounds of the model.                                                    *)
(***************************************************************************)
MaxTicks == 1
TickMs == 62500
MaxPanics == 1
MaxCheckIns == 1
MaxAppends == 2

(***************************************************************************)
(* Strings are sequences of characters, so that toLowerCase() and trim()   *)
(* are computed and not assumed.                                           *)
(***************************************************************************)
NoStr == <<>>

LowerChar(c) ==
    CASE c = "G" -> "g"
      [] c = "Z" -> "z"
      [] OTHER -> c

toLowerCase(s) == [i \in 1..Len(s) |-> LowerChar(s[i])]

RECURSIVE trimStart(_)
trimStart(s) ==
    IF s # <<>> /\ Head(s) = " " THEN trimStart(Tail(s)) ELSE s

RECURSIVE trimEnd(_)
trimEnd(s) ==
    IF s # <<>> /\ s[Len(s)] = " " THEN trimEnd(SubSeq(s, 1, Len(s) - 1)) ELSE s

trim(s) == trimEnd(trimStart(s))

(***************************************************************************)
(* Registered accounts.  Accounts are created by the auth routes, which    *)
(* are outside the walk subsystem: the user store is fixed here.  An       *)
(* account has an email (email and google sign-up) or a phone (OTP         *)
(* sign-up); both fields are optional in the record, and u4 is a record    *)
(* that carries neither.  u1 is the walker, u2 and u3 are accounts a       *)
(* guardian contact can resolve to.                                        *)
(***************************************************************************)
Users == {"u1", "u2", "u3", "u4"}

UserDoc(u) ==
    CASE u = "u1" -> [name |-> <<"w">>, email |-> <<"w">>, phone |-> NoStr]
      [] u = "u2" -> [name |-> NoStr, email |-> <<"g">>, phone |-> NoStr]
      [] u = "u3" -> [name |-> NoStr, email |-> NoStr, phone |-> <<"6">>]
      [] OTHER    -> [name |-> NoStr, email |-> NoStr, phone |-> NoStr]

\* User.find({ $or: orConditions }): the accounts matching any condition.
\* An absent field never equals a queried value.
UserFind(orConditions) ==
    {u \in Users : \E c \in orConditions :
        \/ c.field = "email" /\ UserDoc(u).email # NoStr /\ UserDoc(u).email = c.value
        \/ c.field = "phone" /\ UserDoc(u).phone # NoStr /\ UserDoc(u).phone = c.value}

(***************************************************************************)
(* Optional values: Undefined is a missing field, Def(v) a present one.    *)
(***************************************************************************)
Undefined == <<>>
Def(v) == <<v>>
IsDef(o) == o # Undefined
Val(o) == o[1]

(***************************************************************************)
(* The document stores and the requests in flight.                         *)
(***************************************************************************)
VARIABLES
    now,            \* the wall clock read by new Date(), in ms
    walks,          \* Walk collection: session id -> document or NoDoc
    contacts,       \* Contact collection: contact id -> document or NoDoc
    notifications,  \* Notification collection, in insertion order
    reqs,           \* requests of the handlers that await more than once
    lastRes,        \* the response of the last single-await request
    callSeq,        \* number of panic requests accepted so far (history)
    failedPanics    \* <<session, timestamp>> of panics whose insertMany threw (history)

vars == <<now, walks, contacts, notifications, reqs, lastRes, callSeq, failedPanics>>

NoDoc == [exists |-> FALSE]

SessionIds == {"s1"}
ContactIds == {"c1", "c2"}
ContactOrder == <<"c1", "c2">>
Reqs == {"r1", "r2"}
Modes == {"friend", "guardian", "safe-place"}
ContactTypes == {"emergency", "guardian"}

Loc(lat, lng) == [lat |-> lat, lng |-> lng]

\* A request slot is free when nothing is in flight on it.
CanBegin(r) == reqs[r].pc \in {"idle", "done"}

(***************************************************************************)
(* Contact directory (routes/contacts).                                    *)
(***************************************************************************)
\* contactSchema: name and phone non-empty, type one of the two roles.  An
\* email, when given, is well formed (letters of either case, no blanks).
contactSchemaOk(body) ==
    /\ body.name # NoStr
    /\ body.phone # NoStr
    /\ body.type \in ContactTypes
    /\ \A i \in 1..Len(body.email) : body.email[i] # " "

\* Request bodies the contact routes are driven with: a guardian reachable by
\* email (u2), by phone (u3), by both (u2 and u3), a guardian nobody
\* registered as, an emergency contact, and a body the schema rejects.
BodyEmailU2 == [name |-> <<"n">>, phone |-> <<"7">>, email |-> <<"G">>, type |-> "guardian"]
BodyPhoneU3 == [name |-> <<"n">>, phone |-> <<" ", "6">>, email |-> NoStr, type |-> "guardian"]
BodyBoth == [name |-> <<"n">>, phone |-> <<"6", " ">>, email |-> <<"g">>, type |-> "guardian"]
BodyNobody == [name |-> <<"n">>, phone |-> <<"8">>, email |-> <<"Z">>, type |-> "guardian"]
BodyEmergency == [name |-> <<"n">>, phone |-> <<"6">>, email |-> NoStr, type |-> "emergency"]
BodyInvalid == [name |-> NoStr, phone |-> <<"6">>, email |-> NoStr, type |-> "guardian"]
BodyTrimmedU3 == [name |-> <<"n">>, phone |-> <<"6">>, email |-> NoStr, type |-> "guardian"]

ContactBodies ==
    {BodyEmailU2, BodyPhoneU3, BodyBoth, BodyNobody, BodyEmergency, BodyInvalid}

\* Who sends them: the walker, and one other account owning a contact.
ContactCallers == {"u1", "u3"}

\* A deleted contact: its id is never handed out again.
DeletedDoc == [exists |-> FALSE, deleted |-> TRUE]

FreeContactIds == {c \in ContactIds : contacts[c] = NoDoc}

\* The id a new contact gets: ids are handed out in ContactOrder.
NextContactId ==
    CHOOSE c \in FreeContactIds :
        \A i, j \in 1..Len(ContactOrder) :
            (ContactOrder[i] = c /\ ContactOrder[j] \in FreeContactIds) => i <= j

\* contactData of POST /contacts: the body, the owner, the email normalized.
ContactData(u, body) ==
    [exists |-> TRUE,
     userId |-> u,
     name |-> body.name,
     phone |-> body.phone,
     email |-> IF body.email # NoStr
               THEN trim(toLowerCase(body.email))
               ELSE body.email,
     type |-> body.type]

\* POST /contacts
CreateContact(u, body) ==
    /\ FreeContactIds # {}
    /\ IF contactSchemaOk(body)
       THEN /\ contacts' = [contacts EXCEPT ![NextContactId] = ContactData(u, body)]
            /\ lastRes' = [op |-> "createContact", status |-> 201]
       ELSE /\ contacts' = contacts
            /\ lastRes' = [op |-> "createContact", status |-> 400]
    /\ UNCHANGED <<now, walks, notifications, reqs, callSeq, failedPanics>>

\* updateData of PUT /contacts/:contactId applied as a $set: a body without
\* an email leaves the stored email as it is.
UpdatedContact(contact, body) ==
    [contact EXCEPT !.name = body.name,
                    !.phone = body.phone,
                    !.email = IF body.email # NoStr
                              THEN trim(toLowerCase(body.email))
                              ELSE @,
                    !.type = body.type]

\* PUT /contacts/:contactId
UpdateContact(u, cid, body) ==
    /\ IF ~contactSchemaOk(body)
       THEN /\ contacts' = contacts
            /\ lastRes' = [op |-> "updateContact", status |-> 400]
       ELSE IF contacts[cid].exists /\ contacts[cid].userId = u
       THEN /\ contacts' = [contacts EXCEPT ![cid] = UpdatedContact(@, body)]
            /\ lastRes' = [op |-> "updateContact", status |-> 200]
       ELSE /\ contacts' = contacts
            /\ lastRes' = [op |-> "updateContact", status |-> 404]
    /\ UNCHANGED <<now, walks, notifications, reqs, callSeq, failedPanics>>

\* DELETE /contacts/:contactId
DeleteContact(u, cid) ==
    /\ IF contacts[cid].exists /\ contacts[cid].userId = u
       THEN /\ contacts' = [contacts EXCEPT ![cid] = DeletedDoc]
            /\ lastRes' = [op |-> "deleteContact", status |-> 200]
       ELSE /\ contacts' = contacts
            /\ lastRes' = [op |-> "deleteContact", status |-> 404]
    /\ UNCHANGED <<now, walks, notifications, reqs, callSeq, failedPanics>>

(***************************************************************************)
(* Walk sessions (routes/walk).                                            *)
(***************************************************************************)
Tick ==
    /\ now < MaxTicks * TickMs
    /\ now' = now + TickMs
    /\ UNCHANGED <<walks, contacts, notifications, reqs, lastRes, callSeq, failedPanics>>

\* startWalkSchema: mode is one of the three modes, location is an object
\* with numeric lat and lng (a missing location is Undefined here, a
\* malformed one lacks a coordinate).
startWalkSchemaOk(mode, location) ==
    /\ mode \in Modes
    /\ IsDef(location)
    /\ {"lat", "lng"} \subseteq DOMAIN Val(location)

FreeSessionIds == {s \in SessionIds : ~walks[s].exists}

\* Walk.create in POST /walk/start, with the schema defaults.
NewWalk(u, mode, location, cids, gids) ==
    [exists |-> TRUE,
     userId |-> u,
     mode |-> mode,
     startTime |-> now,
     endTime |-> Undefined,
     duration |-> Undefined,
     startLocation |-> Val(location),
     endLocation |-> Undefined,
     currentLocation |-> Undefined,
     contactIds |-> cids,
     guardianIds |-> gids,
     checkIns |-> <<>>,
     panicEvents |-> <<>>,
     isActive |-> TRUE]

\* Mutant: the document is created before the body is validated.
Start_CreateFirst(u, mode, location, cids, gids) ==
    /\ FreeSessionIds # {}
    /\ LET sid == CHOOSE s \in FreeSessionIds : TRUE
       IN /\ walks' = [walks EXCEPT ![sid] =
                  NewWalk(u, mode, IF IsDef(location) THEN location ELSE Def(Loc(0, 0)),
                          cids, gids)]
          /\ IF startWalkSchemaOk(mode, location)
             THEN lastRes' = [op |-> "start", status |-> 201, sessionId |-> sid,
                              location |-> Val(location), startedAt |-> now]
             ELSE lastRes' = [op |-> "start", status |-> 400]
    /\ UNCHANGED <<now, contacts, notifications, reqs, callSeq, failedPanics>>

\* POST /walk/start: startWalkSchema.parse throws before Walk.create; a
\* valid request needs a session id that is still free.
Start(u, mode, location, cids, gids) ==
    /\ IF startWalkSchemaOk(mode, location)
       THEN /\ FreeSessionIds # {}
            /\ LET sid == CHOOSE s \in FreeSessionIds : TRUE
               IN /\ walks' = [walks EXCEPT ![sid] =
                                  NewWalk(u, mode, location, cids, gids)]
                  /\ lastRes' = [op |-> "start", status |-> 201, sessionId |-> sid,
                                 location |-> Val(location), startedAt |-> now]
       ELSE /\ walks' = walks
            /\ lastRes' = [op |-> "start", status |-> 400]
    /\ UNCHANGED <<now, contacts, notifications, reqs, callSeq, failedPanics>>

\* Mutant: the filter without isActive: true.
OwnedActive_IgnoresActive(sid, u) ==
    /\ walks[sid].exists
    /\ walks[sid].userId = u

\* The filter { _id: sessionId, userId: req.userId, isActive: true }.
OwnedActive(sid, u) ==
    /\ walks[sid].exists
    /\ walks[sid].userId = u
    /\ walks[sid].isActive

\* POST /walk/:sessionId/location, served with no other request in between.
\* lat and lng are numbers or Undefined; !lat is true of a missing value and
\* of 0.  The response is recorded with the request it answers.
UpdateLocation(u, sid, lat, lng) ==
    /\ IF ~IsDef(lat) \/ Val(lat) = 0 \/ ~IsDef(lng) \/ Val(lng) = 0
       THEN /\ walks' = walks
            /\ lastRes' = [op |-> "location", status |-> 400, userId |-> u,
                           sid |-> sid, lat |-> lat, lng |-> lng]
       ELSE IF OwnedActive(sid, u)
       THEN /\ walks' = [walks EXCEPT
                   ![sid].endLocation = Def(Loc(Val(lat), Val(lng))),
                   ![sid].currentLocation =
                       Def([lat |-> Val(lat), lng |-> Val(lng), updatedAt |-> now])]
            /\ lastRes' = [op |-> "location", status |-> 200, userId |-> u,
                           sid |-> sid, lat |-> lat, lng |-> lng, sessionId |-> sid,
                           location |-> Loc(Val(lat), Val(lng)), updatedAt |-> now]
       ELSE /\ walks' = walks
            /\ lastRes' = [op |-> "location", status |-> 404, userId |-> u,
                           sid |-> sid, lat |-> lat, lng |-> lng]
    /\ UNCHANGED <<now, contacts, notifications, reqs, callSeq, failedPanics>>

\* The same handler as the two steps it takes when other requests run
\* between them: const now = new Date() after the test of lat and lng, and
\* the findOneAndUpdate the store applies later.
LocationDate(r, u, sid, lat, lng) ==
    /\ CanBegin(r)
    /\ IF ~IsDef(lat) \/ Val(lat) = 0 \/ ~IsDef(lng) \/ Val(lng) = 0
       THEN reqs' = [reqs EXCEPT ![r] =
                [op |-> "location", pc |-> "done", userId |-> u, sid |-> sid,
                 res |-> [status |-> 400]]]
       ELSE reqs' = [reqs EXCEPT ![r] =
                [op |-> "location", pc |-> "sent", userId |-> u, sid |-> sid,
                 lat |-> Val(lat), lng |-> Val(lng), ts |-> now]]
    /\ UNCHANGED <<now, walks, contacts, notifications, lastRes, callSeq, failedPanics>>

\* Mutant: the point is written field by field, the longitude by a second
\* update that has not run yet.
LocationSet_LatitudeFirst(r) ==
    /\ reqs[r].pc = "sent"
    /\ reqs[r].op = "location"
    /\ LET q == reqs[r]
       IN IF OwnedActive(q.sid, q.userId)
          THEN /\ walks' = [walks EXCEPT
                      ![q.sid].endLocation = Def(Loc(q.lat, q.lng)),
                      ![q.sid].currentLocation =
                          Def([lat |-> q.lat,
                               lng |-> IF IsDef(@) THEN Val(@).lng ELSE q.lng,
                               updatedAt |-> q.ts])]
               /\ reqs' = [reqs EXCEPT ![r] =
                       [op |-> "location", pc |-> "done", userId |-> q.userId,
                        sid |-> q.sid, lat |-> q.lat, lng |-> q.lng, ts |-> q.ts,
                        res |-> [status |-> 200, sessionId |-> q.sid,
                                 location |-> Loc(q.lat, q.lng), updatedAt |-> q.ts]]]
          ELSE /\ walks' = walks
               /\ reqs' = [reqs EXCEPT ![r] =
                       [op |-> "location", pc |-> "done", userId |-> q.userId,
                        sid |-> q.sid, lat |-> q.lat, lng |-> q.lng, ts |-> q.ts,
                        res |-> [status |-> 404]]]
    /\ UNCHANGED <<now, contacts, notifications, lastRes, callSeq, failedPanics>>

\* Mutant: the update sets startLocation where it should set endLocation.
LocationSet_StartLocation(r) ==
    /\ reqs[r].pc = "sent"
    /\ reqs[r].op = "location"
    /\ LET q == reqs[r]
       IN IF OwnedActive(q.sid, q.userId)
          THEN /\ walks' = [walks EXCEPT
                      ![q.sid].startLocation = Loc(q.lat, q.lng),
                      ![q.sid].currentLocation =
                          Def([lat |-> q.lat, lng |-> q.lng, updatedAt |-> q.ts])]
               /\ reqs' = [reqs EXCEPT ![r] =
                       [op |-> "location", pc |-> "done", userId |-> q.userId,
                        sid |-> q.sid, lat |-> q.lat, lng |-> q.lng, ts |-> q.ts,
                        res |-> [status |-> 200, sessionId |-> q.sid,
                                 location |-> Loc(q.lat, q.lng), updatedAt |-> q.ts]]]
          ELSE /\ walks' = walks
               /\ reqs' = [reqs EXCEPT ![r] =
                       [op |-> "location", pc |-> "done", userId |-> q.userId,
                        sid |-> q.sid, lat |-> q.lat, lng |-> q.lng, ts |-> q.ts,
                        res |-> [status |-> 404]]]
    /\ UNCHANGED <<now, contacts, notifications, lastRes, callSeq, failedPanics>>

\* findOneAndUpdate({ _id, userId, isActive: true }, { $set: {...} }): the
\* five fields are set by one update, or nothing is when no document matches.
LocationSet(r) ==
    /\ reqs[r].pc = "sent"
    /\ reqs[r].op = "location"
    /\ LET q == reqs[r]
       IN IF OwnedActive(q.sid, q.userId)
          THEN /\ walks' = [walks EXCEPT
                      ![q.sid].endLocation = Def(Loc(q.lat, q.lng)),
                      ![q.sid].currentLocation =
                          Def([lat |-> q.lat, lng |-> q.lng, updatedAt |-> q.ts])]
               /\ reqs' = [reqs EXCEPT ![r] =
                       [op |-> "location", pc |-> "done", userId |-> q.userId,
                        sid |-> q.sid, lat |-> q.lat, lng |-> q.lng, ts |-> q.ts,
                        res |-> [status |-> 200, sessionId |-> q.sid,
                                 location |-> Loc(q.lat, q.lng), updatedAt |-> q.ts]]]
          ELSE /\ walks' = walks
               /\ reqs' = [reqs EXCEPT ![r] =
                       [op |-> "location", pc |-> "done", userId |-> q.userId,
                        sid |-> q.sid, lat |-> q.lat, lng |-> q.lng, ts |-> q.ts,
                        res |-> [status |-> 404]]]
    /\ UNCHANGED <<now, contacts, notifications, lastRes, callSeq, failedPanics>>

\* POST /walk/:sessionId/checkin.  new Date() is evaluated by the handler
\* when it builds the update; the store applies the update later.
CheckInDate(r, u, sid) ==
    /\ CanBegin(r)
    /\ reqs' = [reqs EXCEPT ![r] =
            [op |-> "checkin", pc |-> "sent", userId |-> u, sid |-> sid, ts |-> now]]
    /\ UNCHANGED <<now, walks, contacts, notifications, lastRes, callSeq, failedPanics>>

\* Mutant: the append as a write of the list the handler last saw (empty).
CheckIn_Overwrite(r) ==
    /\ reqs[r].pc = "sent"
    /\ reqs[r].op = "checkin"
    /\ LET q == reqs[r]
       IN IF OwnedActive(q.sid, q.userId)
          THEN /\ walks' = [walks EXCEPT ![q.sid].checkIns = <<q.ts>>]
               /\ reqs' = [reqs EXCEPT ![r] =
                       [op |-> "checkin", pc |-> "done", userId |-> q.userId,
                        sid |-> q.sid, ts |-> q.ts,
                        res |-> [status |-> 200, sessionId |-> q.sid, checkInAt |-> now]]]
          ELSE /\ walks' = walks
               /\ reqs' = [reqs EXCEPT ![r] =
                       [op |-> "checkin", pc |-> "done", userId |-> q.userId,
                        sid |-> q.sid, ts |-> q.ts, res |-> [status |-> 404]]]
    /\ UNCHANGED <<now, contacts, notifications, lastRes, callSeq, failedPanics>>

\* Mutant: the append is keyed by the session and its owner, not by isActive.
CheckIn_AfterEnd(r) ==
    /\ reqs[r].pc = "sent"
    /\ reqs[r].op = "checkin"
    /\ LET q == reqs[r]
       IN IF walks[q.sid].exists /\ walks[q.sid].userId = q.userId
          THEN /\ walks' = [walks EXCEPT ![q.sid].checkIns = Append(@, q.ts)]
               /\ reqs' = [reqs EXCEPT ![r] =
                       [op |-> "checkin", pc |-> "done", userId |-> q.userId,
                        sid |-> q.sid, ts |-> q.ts,
                        res |-> [status |-> 200, sessionId |-> q.sid, checkInAt |-> now]]]
          ELSE /\ walks' = walks
               /\ reqs' = [reqs EXCEPT ![r] =
                       [op |-> "checkin", pc |-> "done", userId |-> q.userId,
                        sid |-> q.sid, ts |-> q.ts, res |-> [status |-> 404]]]
    /\ UNCHANGED <<now, contacts, notifications, lastRes, callSeq, failedPanics>>

\* Walk.findOneAndUpdate(filter, { $push: { checkIns: <date> } }): one atomic
\* conditional append, and the response; 404 when nothing matches.
CheckIn(r) ==
    /\ reqs[r].pc = "sent"
    /\ reqs[r].op = "checkin"
    /\ LET q == reqs[r]
       IN IF OwnedActive(q.sid, q.userId)
          THEN /\ walks' = [walks EXCEPT ![q.sid].checkIns = Append(@, q.ts)]
               /\ reqs' = [reqs EXCEPT ![r] =
                       [op |-> "checkin", pc |-> "done", userId |-> q.userId,
                        sid |-> q.sid, ts |-> q.ts,
                        res |-> [status |-> 200, sessionId |-> q.sid, checkInAt |-> now]]]
          ELSE /\ walks' = walks
               /\ reqs' = [reqs EXCEPT ![r] =
                       [op |-> "checkin", pc |-> "done", userId |-> q.userId,
                        sid |-> q.sid, ts |-> q.ts, res |-> [status |-> 404]]]
    /\ UNCHANGED <<now, contacts, notifications, lastRes, callSeq, failedPanics>>

(***************************************************************************)
(* The duration string of POST /walk/:sessionId/end.                       *)
(***************************************************************************)
MsPerMinute == 60000
MsPerSecond == 1000

Digit(d) ==
    CASE d = 0 -> "0" [] d = 1 -> "1" [] d = 2 -> "2" [] d = 3 -> "3"
      [] d = 4 -> "4" [] d = 5 -> "5" [] d = 6 -> "6" [] d = 7 -> "7"
      [] d = 8 -> "8" [] OTHER -> "9"

\* Number.prototype.toString() of a natural number.
RECURSIVE toString(_)
toString(n) ==
    IF n < 10 THEN <<Digit(n)>> ELSE Append(toString(n \div 10), Digit(n % 10))

\* String.prototype.padStart(2, "0")
padStart2(str) == IF Len(str) < 2 THEN <<"0">> \o str ELSE str

\* Mutant: the minutes wrapped at the hour.
FormatDuration_HourWrap(durationMs) ==
    LET minutes == (durationMs \div MsPerMinute) % 60
        seconds == (durationMs % MsPerMinute) \div MsPerSecond
    IN padStart2(toString(minutes)) \o <<":">> \o padStart2(toString(seconds))

\* duration = `${minutes...padStart(2, "0")}:${seconds...padStart(2, "0")}`
FormatDuration(durationMs) ==
    LET minutes == durationMs \div MsPerMinute
        seconds == (durationMs % MsPerMinute) \div MsPerSecond
    IN padStart2(toString(minutes)) \o <<":">> \o padStart2(toString(seconds))

(***************************************************************************)
(* POST /walk/:sessionId/end: findOne, then save() of the changed paths.   *)
(***************************************************************************)
\* Walk.findOne({ _id, userId, isActive: true }) and the assignments to the
\* loaded document (walk); nothing is written yet.
EndFind(r, u, sid, location) ==
    /\ CanBegin(r)
    /\ IF OwnedActive(sid, u)
       THEN reqs' = [reqs EXCEPT ![r] =
                [op |-> "end", pc |-> "found", userId |-> u, sid |-> sid,
                 location |-> location, walk |-> walks[sid],
                 endTime |-> now,
                 duration |-> FormatDuration(now - walks[sid].startTime)]]
       ELSE reqs' = [reqs EXCEPT ![r] =
                [op |-> "end", pc |-> "done", userId |-> u, sid |-> sid,
                 res |-> [status |-> 404]]]
    /\ UNCHANGED <<now, walks, contacts, notifications, lastRes, callSeq, failedPanics>>

\* Mutant: save() without walk.isActive = false.
SavedWalk_StaysActive(w, q) ==
    [w EXCEPT !.endTime = Def(q.endTime),
              !.duration = Def(q.duration),
              !.endLocation = IF IsDef(q.location) THEN q.location ELSE @]

\* The document after save(): the modified paths are $set by _id alone.
SavedWalk(w, q) ==
    [w EXCEPT !.endTime = Def(q.endTime),
              !.duration = Def(q.duration),
              !.isActive = FALSE,
              !.endLocation = IF IsDef(q.location) THEN q.location ELSE @]

\* Mutant: save() writes the whole document as it was loaded.
EndSave_WholeDocument(r) ==
    /\ reqs[r].pc = "found"
    /\ reqs[r].op = "end"
    /\ walks' = [walks EXCEPT ![reqs[r].sid] = SavedWalk(reqs[r].walk, reqs[r])]
    /\ reqs' = [reqs EXCEPT ![r] =
            [op |-> "end", pc |-> "done", userId |-> reqs[r].userId, sid |-> reqs[r].sid,
             res |-> [status |-> 200, endedAt |-> reqs[r].endTime,
                      duration |-> reqs[r].duration]]]
    /\ UNCHANGED <<now, contacts, notifications, lastRes, callSeq, failedPanics>>

\* walk.save() and the response.
EndSave(r) ==
    /\ reqs[r].pc = "found"
    /\ reqs[r].op = "end"
    /\ walks' = [walks EXCEPT ![reqs[r].sid] = SavedWalk(@, reqs[r])]
    /\ reqs' = [reqs EXCEPT ![r] =
            [op |-> "end", pc |-> "done", userId |-> reqs[r].userId, sid |-> reqs[r].sid,
             res |-> [status |-> 200, endedAt |-> reqs[r].endTime,
                      duration |-> reqs[r].duration]]]
    /\ UNCHANGED <<now, contacts, notifications, lastRes, callSeq, failedPanics>>

(***************************************************************************)
(* POST /walk/:sessionId/panic.  The repository holds two versions of the  *)
(* walk router; a request is served by one of them (impl).  They differ in *)
(* the location fallback, in what happens when insertMany throws and in    *)
(* the fields of the response.                                             *)
(***************************************************************************)
Impls == {"part_002", "part_003"}
UserOrder == <<"u1", "u2", "u3", "u4">>
\* No batch is longer: every contact resolves to at most every account.
MaxBatch == Len(ContactOrder) * Len(UserOrder)

\* walker?.name || walker?.email || "Someone"
WalkerName(u) ==
    IF UserDoc(u).name # NoStr THEN UserDoc(u).name
    ELSE IF UserDoc(u).email # NoStr THEN UserDoc(u).email
    ELSE <<"S", "o", "m", "e", "o", "n", "e">>

\* new Date() is evaluated by the handler when it builds the update; the
\* store applies the update later.
PanicDate(r, u, sid, location, impl) ==
    /\ CanBegin(r)
    /\ reqs' = [reqs EXCEPT ![r] =
            [op |-> "panic", pc |-> "sent", impl |-> impl, userId |-> u, sid |-> sid,
             location |-> location, ts |-> now]]
    /\ UNCHANGED <<now, walks, contacts, notifications, lastRes, callSeq, failedPanics>>

\* Mutant: the update without the $push of the panic timestamp.
PanicAppend_NoPush(r) ==
    /\ reqs[r].pc = "sent"
    /\ reqs[r].op = "panic"
    /\ OwnedActive(reqs[r].sid, reqs[r].userId)
    /\ LET q == reqs[r]
       IN reqs' = [reqs EXCEPT ![r] =
               [op |-> "panic", pc |-> "appended", impl |-> q.impl, userId |-> q.userId,
                sid |-> q.sid, location |-> q.location, call |-> callSeq + 1,
                ts |-> q.ts, walk |-> walks[q.sid]]]
    /\ callSeq' = callSeq + 1
    /\ UNCHANGED <<now, walks, contacts, notifications, lastRes, failedPanics>>

\* Walk.findOneAndUpdate(filter, { $push: { panicEvents: <date> } },
\* { new: true }): one atomic conditional append; 404 when nothing matches.
PanicAppend(r) ==
    /\ reqs[r].pc = "sent"
    /\ reqs[r].op = "panic"
    /\ OwnedActive(reqs[r].sid, reqs[r].userId)
    /\ LET q == reqs[r]
       IN /\ walks' = [walks EXCEPT ![q.sid].panicEvents = Append(@, q.ts)]
          /\ reqs' = [reqs EXCEPT ![r] =
                  [op |-> "panic", pc |-> "appended", impl |-> q.impl, userId |-> q.userId,
                   sid |-> q.sid, location |-> q.location, call |-> callSeq + 1,
                   ts |-> q.ts, walk |-> walks'[q.sid]]]
    /\ callSeq' = callSeq + 1
    /\ UNCHANGED <<now, contacts, notifications, lastRes, failedPanics>>

PanicNotFound(r) ==
    /\ reqs[r].pc = "sent"
    /\ reqs[r].op = "panic"
    /\ ~OwnedActive(reqs[r].sid, reqs[r].userId)
    /\ reqs' = [reqs EXCEPT ![r] =
            [op |-> "panic", pc |-> "done", impl |-> reqs[r].impl,
             userId |-> reqs[r].userId, sid |-> reqs[r].sid,
             res |-> [status |-> 404]]]
    /\ UNCHANGED <<now, walks, contacts, notifications, lastRes, callSeq, failedPanics>>

\* The panics and check-ins begun so far (accepted or in flight), which the
\* specifications below cap.
PanicsBegun ==
    callSeq + Cardinality({r \in Reqs : reqs[r].pc = "sent" /\ reqs[r].op = "panic"})

CheckInsBegun(sid) ==
    (IF walks[sid].exists THEN Len(walks[sid].checkIns) ELSE 0)
    + Cardinality({r \in Reqs : reqs[r].pc = "sent" /\ reqs[r].op = "checkin"})

\* Contact.find({ _id: { $in: [...contactIds, ...guardianIds] }, userId })
PanicContacts(walk, u) ==
    {c \in walk.contactIds \cup walk.guardianIds :
        contacts[c].exists /\ contacts[c].userId = u}

\* The $or conditions built from one guardian contact.
ContactConditions(contact) ==
    (IF contact.email # NoStr
     THEN {[field |-> "email", value |-> trim(toLowerCase(contact.email))]} ELSE {})
    \cup
    (IF contact.phone # NoStr
     THEN {[field |-> "phone", value |-> trim(contact.phone)]} ELSE {})

\* The accounts one guardian contact resolves to, as User.find returns them.
ResolveContact(contact) ==
    IF ContactConditions(contact) # {}
    THEN SelectSeq(UserOrder, LAMBDA u : u \in UserFind(ContactConditions(contact)))
    ELSE <<>>

\* guardianUserIds after the loop over contacts[i..]: every match of every
\* guardian contact is pushed.
RECURSIVE GuardianUserIds(_, _)
GuardianUserIds(found, i) ==
    IF i > Len(ContactOrder) THEN <<>>
    ELSE LET c == ContactOrder[i]
         IN (IF c \in found /\ contacts[c].type = "guardian"
             THEN ResolveContact(contacts[c]) ELSE <<>>)
            \o GuardianUserIds(found, i + 1)

\* The currentLocation of a session whose document stores none: the schema
\* declares currentLocation as a nested path { lat, lng, updatedAt }, and
\* the document returns an object for a nested path whether or not anything
\* is stored under it; here its members read as undefined.
UnsetCurrentLocation == [updatedAt |-> Undefined]

\* walk.currentLocation as the handlers read it from the document.
CurrentLocation(walk) ==
    IF IsDef(walk.currentLocation) THEN Val(walk.currentLocation)
    ELSE UnsetCurrentLocation

\* location ?? walk.currentLocation ?? walk.startLocation ?? { lat: 0, lng: 0 }
\* (part_002) and location || walk.currentLocation || walk.startLocation
\* (part_003): walk.currentLocation is an object, neither nullish nor falsy,
\* so the chain ends at it when no location was reported.
PanicLocation(location, walk) ==
    IF IsDef(location) THEN Val(location)
    ELSE CurrentLocation(walk)

\* One notification document of the batch.
PanicNotification(guardianUserId, q) ==
    [userId |-> guardianUserId,
     type |-> "panic",
     title |-> "Panic Alert",
     message |-> WalkerName(q.walk.userId) \o <<" has triggered a panic button">>,
     walkId |-> q.sid,
     isRead |-> FALSE,
     readAt |-> Undefined,
     metadata |-> [location |-> PanicLocation(q.location, q.walk),
                   userName |-> WalkerName(q.walk.userId)],
     call |-> q.call]

\* Contact.find, the User.find of every guardian contact, and the batch.
PanicResolve(r) ==
    /\ reqs[r].pc = "appended"
    /\ LET q == reqs[r]
           found == PanicContacts(q.walk, q.userId)
           ids == GuardianUserIds(found, 1)
       IN reqs' = [reqs EXCEPT ![r] =
               [op |-> "panic", pc |-> "resolved", impl |-> q.impl, userId |-> q.userId,
                sid |-> q.sid, location |-> q.location, call |-> q.call, ts |-> q.ts,
                walk |-> q.walk,
                batch |-> [i \in 1..Len(ids) |-> PanicNotification(ids[i], q)],
                emergencyContacts |->
                    Cardinality({c \in found : contacts[c].type = "emergency"})]]
    /\ UNCHANGED <<now, walks, contacts, notifications, lastRes, callSeq, failedPanics>>

\* res.json({...}) of the panic handler.
PanicResponse(q) ==
    IF q.impl = "part_002"
    THEN [status |-> 200, sessionId |-> q.sid, panicTriggered |-> TRUE,
          notificationsSent |-> Len(q.batch),
          emergencyContacts |-> q.emergencyContacts, timestamp |-> now]
    ELSE [status |-> 200, sessionId |-> q.sid, panicTriggered |-> TRUE,
          notificationsSent |-> Len(q.batch), timestamp |-> now]

PanicDone(q, res, failed) ==
    [op |-> "panic", pc |-> "done", impl |-> q.impl, userId |-> q.userId,
     sid |-> q.sid, location |-> q.location, call |-> q.call, ts |-> q.ts,
     walk |-> q.walk, batch |-> q.batch, failed |-> failed, res |-> res]

\* Documents as stored by insertMany (timestamps: true).
Stored(docs) == [i \in 1..Len(docs) |-> [createdAt |-> now] @@ docs[i]]

\* Mutant: the response is sent only after an insertMany, which is skipped
\* for an empty batch.
PanicNoRecipients_NoResponse(r) ==
    /\ reqs[r].pc = "resolved"
    /\ Len(reqs[r].batch) = 0
    /\ UNCHANGED vars

\* notifications.length = 0: insertMany is skipped.
PanicNoRecipients(r) ==
    /\ reqs[r].pc = "resolved"
    /\ Len(reqs[r].batch) = 0
    /\ reqs' = [reqs EXCEPT ![r] = PanicDone(@, PanicResponse(@), FALSE)]
    /\ UNCHANGED <<now, walks, contacts, notifications, lastRes, callSeq, failedPanics>>

\* insertMany succeeds.
PanicInsertOk(r) ==
    /\ reqs[r].pc = "resolved"
    /\ Len(reqs[r].batch) > 0
    /\ notifications' = notifications \o Stored(reqs[r].batch)
    /\ reqs' = [reqs EXCEPT ![r] = PanicDone(@, PanicResponse(@), FALSE)]
    /\ UNCHANGED <<now, walks, contacts, lastRes, callSeq, failedPanics>>

\* What the handler answers after insertMany threw: part_002 catches and
\* logs, part_003 lets the error reach next(error).
PanicFailureResponse(q) ==
    IF q.impl = "part_002" THEN PanicResponse(q) ELSE [status |-> 500]

\* Mutant: a failed insertMany takes the panic timestamp back.
PanicInsertFail_Rollback(r, k) ==
    /\ reqs[r].pc = "resolved"
    /\ Len(reqs[r].batch) > 0
    /\ k < Len(reqs[r].batch)
    /\ notifications' = notifications \o Stored(SubSeq(reqs[r].batch, 1, k))
    /\ failedPanics' = failedPanics \cup {<<reqs[r].sid, reqs[r].ts>>}
    /\ walks' = [walks EXCEPT ![reqs[r].sid].panicEvents =
                    SubSeq(@, 1, Len(@) - 1)]
    /\ reqs' = [reqs EXCEPT ![r] = PanicDone(@, PanicFailureResponse(@), TRUE)]
    /\ UNCHANGED <<now, contacts, lastRes, callSeq>>

\* insertMany throws: the (ordered) insert stored the first k documents only.
PanicInsertFail(r, k) ==
    /\ reqs[r].pc = "resolved"
    /\ Len(reqs[r].batch) > 0
    /\ k < Len(reqs[r].batch)
    /\ notifications' = notifications \o Stored(SubSeq(reqs[r].batch, 1, k))
    /\ failedPanics' = failedPanics \cup {<<reqs[r].sid, reqs[r].ts>>}
    /\ reqs' = [reqs EXCEPT ![r] = PanicDone(@, PanicFailureResponse(@), TRUE)]
    /\ UNCHANGED <<now, walks, contacts, lastRes, callSeq>>

(***************************************************************************)
(* GET /walk/:sessionId/location: the live location, for the owner and the *)
(* guardians of the session.                                               *)
(***************************************************************************)
\* User.findById and Walk.findOne({ _id, isActive: true }); every caller is a
\* registered account.
LiveNotFound == [status |-> 404]

LiveFind(r, u, sid) ==
    /\ CanBegin(r)
    /\ IF walks[sid].exists /\ walks[sid].isActive
       THEN reqs' = [reqs EXCEPT ![r] =
                [op |-> "live", pc |-> "found", userId |-> u, sid |-> sid,
                 walk |-> walks[sid]]]
       ELSE reqs' = [reqs EXCEPT ![r] =
                [op |-> "live", pc |-> "done", userId |-> u, sid |-> sid,
                 res |-> LiveNotFound]]
    /\ UNCHANGED <<now, walks, contacts, notifications, lastRes, callSeq, failedPanics>>

\* orConditions built from the calling account.
CallerConditions(u) ==
    (IF UserDoc(u).email # NoStr
     THEN {[field |-> "email", value |-> trim(toLowerCase(UserDoc(u).email))]} ELSE {})
    \cup
    (IF UserDoc(u).phone # NoStr
     THEN {[field |-> "phone", value |-> trim(UserDoc(u).phone)]} ELSE {})

\* Contact.find({ _id: { $in: walk.guardianIds }, type: "guardian", $or }):
\* the stored fields are compared as they are.
LiveGuardianContacts(u, walk) ==
    {c \in walk.guardianIds :
        /\ contacts[c].exists
        /\ contacts[c].type = "guardian"
        /\ \E cond \in CallerConditions(u) :
              \/ cond.field = "email" /\ contacts[c].email # NoStr
                                      /\ contacts[c].email = cond.value
              \/ cond.field = "phone" /\ contacts[c].phone = cond.value}

\* isGuardian = guardianContacts.length > 0
LiveIsGuardian(r) == LiveGuardianContacts(reqs[r].userId, reqs[r].walk) # {}

\* res.json({...}) of the live location.
LiveResponse(walk) ==
    [status |-> 200,
     userName |-> IF UserDoc(walk.userId).name # NoStr THEN UserDoc(walk.userId).name
                  ELSE IF UserDoc(walk.userId).email # NoStr
                       THEN UserDoc(walk.userId).email
                       ELSE <<"U", "n", "k", "n", "o", "w", "n">>,
     location |-> CurrentLocation(walk),
     startLocation |-> walk.startLocation,
     startTime |-> walk.startTime,
     checkIns |-> Len(walk.checkIns),
     panicEvents |-> Len(walk.panicEvents),
     lastCheckIn |-> IF Len(walk.checkIns) > 0
                     THEN Def(walk.checkIns[Len(walk.checkIns)]) ELSE Undefined,
     lastLocationUpdate |-> IF IsDef(walk.currentLocation)
                            THEN Val(walk.currentLocation).updatedAt
                            ELSE walk.startTime]

\* The checks in the order of the handler: a caller without email and phone
\* is refused; then Contact.find; then neither guardian nor owner is refused.
LiveOutcome(u, walk) ==
    IF CallerConditions(u) = {} THEN [status |-> 403]
    ELSE IF LiveGuardianContacts(u, walk) = {} /\ walk.userId # u
         THEN [status |-> 403]
         ELSE LiveResponse(walk)

\* The outcome for the request in slot r.
LiveDecision(r) == LiveOutcome(reqs[r].userId, reqs[r].walk)

\* The authorization and the response.
LiveAuthorize(r) ==
    /\ reqs[r].pc = "found"
    /\ reqs[r].op = "live"
    /\ reqs' = [reqs EXCEPT ![r] =
            [op |-> "live", pc |-> "done", userId |-> reqs[r].userId,
             sid |-> reqs[r].sid, res |-> LiveDecision(r)]]
    /\ UNCHANGED <<now, walks, contacts, notifications, lastRes, callSeq, failedPanics>>

(***************************************************************************)
(* GET /walk/guardian/active, in both versions of the router: the guardian *)
(* contacts matching the caller are read first, the active sessions        *)
(* naming one of them afterwards.                                          *)
(***************************************************************************)
\* Mutant: the stored phone is trimmed before the comparison.
GuardianQuery_TrimsStored(u) ==
    {c \in ContactIds :
        /\ contacts[c].exists
        /\ contacts[c].type = "guardian"
        /\ \E cond \in CallerConditions(u) :
              \/ cond.field = "email" /\ contacts[c].email # NoStr
                                      /\ contacts[c].email = cond.value
              \/ cond.field = "phone" /\ trim(contacts[c].phone) = cond.value}

\* Contact.find({ type: "guardian", $or }) over the whole collection: the
\* stored fields are compared as they are.
GuardianQuery(u) ==
    {c \in ContactIds :
        /\ contacts[c].exists
        /\ contacts[c].type = "guardian"
        /\ \E cond \in CallerConditions(u) :
              \/ cond.field = "email" /\ contacts[c].email # NoStr
                                      /\ contacts[c].email = cond.value
              \/ cond.field = "phone" /\ contacts[c].phone = cond.value}

\* User.findById, the conditions and Contact.find; without conditions or
\* without contacts the answer is the empty list.
GuardianContactsFind(r, u) ==
    /\ CanBegin(r)
    /\ IF CallerConditions(u) # {} /\ GuardianQuery(u) # {}
       THEN reqs' = [reqs EXCEPT ![r] =
                [op |-> "guardianActive", pc |-> "contacts", userId |-> u,
                 guardianContactIds |-> GuardianQuery(u)]]
       ELSE reqs' = [reqs EXCEPT ![r] =
                [op |-> "guardianActive", pc |-> "done", userId |-> u,
                 res |-> [status |-> 200, walks |-> <<>>]]]
    /\ UNCHANGED <<now, walks, contacts, notifications, lastRes, callSeq, failedPanics>>

\* Walk.find({ guardianIds: { $in: guardianContactIds }, isActive: true })
ActiveWalksNaming(ids) ==
    {sid \in SessionIds :
        /\ walks[sid].exists
        /\ walks[sid].isActive
        /\ walks[sid].guardianIds \cap ids # {}}

\* .sort({ startTime: -1 })
SortedLatestFirst(sids) ==
    {order \in [1..Cardinality(sids) -> sids] :
        /\ \A i, j \in 1..Cardinality(sids) : order[i] = order[j] => i = j
        /\ \A i, j \in 1..Cardinality(sids) :
              i < j => walks[order[i]].startTime >= walks[order[j]].startTime}

\* One element of the response.
GuardianWalk(sid) ==
    [id |-> sid,
     userId |-> walks[sid].userId,
     mode |-> walks[sid].mode,
     startTime |-> walks[sid].startTime,
     startLocation |-> walks[sid].startLocation,
     currentLocation |-> CurrentLocation(walks[sid]),
     checkIns |-> Len(walks[sid].checkIns),
     panicEvents |-> Len(walks[sid].panicEvents)]

\* Walk.find and the response.
GuardianWalksFind(r) ==
    /\ reqs[r].pc = "contacts"
    /\ reqs[r].op = "guardianActive"
    /\ \E order \in SortedLatestFirst(ActiveWalksNaming(reqs[r].guardianContactIds)) :
          reqs' = [reqs EXCEPT ![r] =
              [op |-> "guardianActive", pc |-> "done", userId |-> reqs[r].userId,
               res |-> [status |-> 200,
                        walks |-> [k \in 1..Len(order) |-> GuardianWalk(order[k])]]]]
    /\ UNCHANGED <<now, walks, contacts, notifications, lastRes, callSeq, failedPanics>>

(***************************************************************************)
(* The notification inbox (routes/notifications).                          *)
(***************************************************************************)
\* Notification.countDocuments({ userId, isRead: false }) on a store.
UnreadIn(store, u) ==
    Cardinality({i \in 1..Len(store) : store[i].userId = u /\ ~store[i].isRead})

UnreadCount(u) == UnreadIn(notifications, u)

\* Mutant: the bulk update without isRead: false in its filter.
MarkAllRead_Restamp(u) ==
    /\ notifications' =
            [i \in 1..Len(notifications) |->
                IF notifications[i].userId = u
                THEN [notifications[i] EXCEPT !.isRead = TRUE, !.readAt = Def(now)]
                ELSE notifications[i]]
    /\ lastRes' = [op |-> "readAll", status |-> 200, userId |-> u,
                   modified |-> UnreadCount(u)]
    /\ UNCHANGED <<now, walks, contacts, reqs, callSeq, failedPanics>>

\* Mutant: the bulk update without userId in its filter.
MarkAllRead_Everyone(u) ==
    /\ notifications' =
            [i \in 1..Len(notifications) |->
                IF ~notifications[i].isRead
                THEN [notifications[i] EXCEPT !.isRead = TRUE, !.readAt = Def(now)]
                ELSE notifications[i]]
    /\ lastRes' = [op |-> "readAll", status |-> 200, userId |-> u,
                   modified |-> UnreadCount(u)]
    /\ UNCHANGED <<now, walks, contacts, reqs, callSeq, failedPanics>>

\* Mutant: the bulk update sets the flag and not the date.
MarkAllRead_FlagOnly(u) ==
    /\ notifications' =
            [i \in 1..Len(notifications) |->
                IF notifications[i].userId = u /\ ~notifications[i].isRead
                THEN [notifications[i] EXCEPT !.isRead = TRUE]
                ELSE notifications[i]]
    /\ lastRes' = [op |-> "readAll", status |-> 200, userId |-> u,
                   modified |-> UnreadCount(u)]
    /\ UNCHANGED <<now, walks, contacts, reqs, callSeq, failedPanics>>

\* PATCH /notifications/read-all: Notification.updateMany({ userId,
\* isRead: false }, { isRead: true, readAt: new Date() }); modified is the
\* number of documents the update matched.
MarkAllRead(u) ==
    /\ notifications' =
            [i \in 1..Len(notifications) |->
                IF notifications[i].userId = u /\ ~notifications[i].isRead
                THEN [notifications[i] EXCEPT !.isRead = TRUE, !.readAt = Def(now)]
                ELSE notifications[i]]
    /\ lastRes' = [op |-> "readAll", status |-> 200, userId |-> u,
                   modified |-> UnreadCount(u)]
    /\ UNCHANGED <<now, walks, contacts, reqs, callSeq, failedPanics>>

\* Mutant: the update by id alone, whoever the recipient is.
MarkRead_AnyRecipient(u, nid) ==
    /\ IF nid \in 1..Len(notifications)
       THEN /\ notifications' = [notifications EXCEPT ![nid].isRead = TRUE,
                                                      ![nid].readAt = Def(now)]
            /\ lastRes' = [op |-> "read", status |-> 200, userId |-> u, nid |-> nid,
                           isRead |-> TRUE]
       ELSE /\ notifications' = notifications
            /\ lastRes' = [op |-> "read", status |-> 404, userId |-> u, nid |-> nid]
    /\ UNCHANGED <<now, walks, contacts, reqs, callSeq, failedPanics>>

\* Mutant: the update flips the flag instead of setting it.
MarkRead_Toggle(u, nid) ==
    /\ IF nid \in 1..Len(notifications) /\ notifications[nid].userId = u
       THEN /\ notifications' =
                  [notifications EXCEPT
                      ![nid].isRead = ~@,
                      ![nid].readAt = IF notifications[nid].isRead
                                      THEN Undefined ELSE Def(now)]
            /\ lastRes' = [op |-> "read", status |-> 200, userId |-> u, nid |-> nid,
                           isRead |-> TRUE]
       ELSE /\ notifications' = notifications
            /\ lastRes' = [op |-> "read", status |-> 404, userId |-> u, nid |-> nid]
    /\ UNCHANGED <<now, walks, contacts, reqs, callSeq, failedPanics>>

\* PATCH /notifications/:notificationId/read: findOneAndUpdate({ _id, userId },
\* { isRead: true, readAt: new Date() }); a notification's id is its
\* position in the collection.  The response is recorded with its request.
MarkRead(u, nid) ==
    /\ IF nid \in 1..Len(notifications) /\ notifications[nid].userId = u
       THEN /\ notifications' = [notifications EXCEPT ![nid].isRead = TRUE,
                                                      ![nid].readAt = Def(now)]
            /\ lastRes' = [op |-> "read", status |-> 200, userId |-> u, nid |-> nid,
                           isRead |-> TRUE]
       ELSE /\ notifications' = notifications
            /\ lastRes' = [op |-> "read", status |-> 404, userId |-> u, nid |-> nid]
    /\ UNCHANGED <<now, walks, contacts, reqs, callSeq, failedPanics>>

\* const { unreadOnly, limit = 50 } = req.query
DefaultLimit == 50

\* The documents the query of GET /notifications matches.
ListQuery(u, unreadOnly) ==
    {i \in 1..Len(notifications) :
        /\ notifications[i].userId = u
        /\ unreadOnly => ~notifications[i].isRead}

\* .sort({ createdAt: -1 }): every order of the matches with createdAt not
\* increasing; documents created together come in any order.
SortedNewestFirst(ids) ==
    {order \in [1..Cardinality(ids) -> ids] :
        /\ \A i, j \in 1..Cardinality(ids) : order[i] = order[j] => i = j
        /\ \A i, j \in 1..Cardinality(ids) :
              i < j => notifications[order[i]].createdAt
                          >= notifications[order[j]].createdAt}

\* .limit(parseInt(limit, 10)): a limit of 0 is no limit for the store.
Limited(order, limit) ==
    LET n == IF IsDef(limit) THEN Val(limit) ELSE DefaultLimit
    IN IF n = 0 \/ n >= Len(order) THEN order ELSE SubSeq(order, 1, n)

\* One element of the response.
ListItem(i) ==
    [id |-> i,
     type |-> notifications[i].type,
     title |-> notifications[i].title,
     message |-> notifications[i].message,
     isRead |-> notifications[i].isRead,
     metadata |-> notifications[i].metadata,
     createdAt |-> notifications[i].createdAt,
     readAt |-> notifications[i].readAt,
     walkId |-> notifications[i].walkId]

\* GET /notifications: Notification.find(query).sort().limit()
ListFind(r, u, unreadOnly, limit) ==
    /\ CanBegin(r)
    /\ \E order \in SortedNewestFirst(ListQuery(u, unreadOnly)) :
          reqs' = [reqs EXCEPT ![r] =
              [op |-> "list", pc |-> "listed", userId |-> u,
               unreadOnly |-> unreadOnly, limit |-> limit,
               items |-> [k \in 1..Len(Limited(order, limit)) |->
                             ListItem(Limited(order, limit)[k])]]]
    /\ UNCHANGED <<now, walks, contacts, notifications, lastRes, callSeq, failedPanics>>

\* Notification.countDocuments({ userId, isRead: false }) and the response.
ListCount(r) ==
    /\ reqs[r].pc = "listed"
    /\ reqs[r].op = "list"
    /\ reqs' = [reqs EXCEPT ![r] =
            [op |-> "list", pc |-> "done", userId |-> reqs[r].userId,
             unreadOnly |-> reqs[r].unreadOnly, limit |-> reqs[r].limit,
             res |-> [status |-> 200, notifications |-> reqs[r].items,
                      unreadCount |-> UnreadCount(reqs[r].userId)]]]
    /\ UNCHANGED <<now, walks, contacts, notifications, lastRes, callSeq, failedPanics>>

(***************************************************************************)
(* The system: the stores start empty, and any request may arrive.         *)
(***************************************************************************)
Callers == {"u1", "u2"}
Walkers == {"u1"}
StartModes == {"guardian", "walk"}
StartLocations == {Undefined, Def([lat |-> 1]), Def(Loc(1, 1))}
Coordinates == {Undefined, Def(0), Def(2)}
PanicLocations == {Undefined, Def(Loc(3, 3))}
EndLocations == {Undefined, Def(Loc(4, 4))}
Limits == {Undefined, Def(0), Def(1)}

Init ==
    /\ now = 0
    /\ walks = [s \in SessionIds |-> NoDoc]
    /\ contacts = [c \in ContactIds |-> NoDoc]
    /\ notifications = <<>>
    /\ reqs = [r \in Reqs |-> [pc |-> "idle"]]
    /\ lastRes = [op |-> "none"]
    /\ callSeq = 0
    /\ failedPanics = {}

Next ==
    \/ Tick
    \/ \E u \in ContactCallers, body \in ContactBodies : CreateContact(u, body)
    \/ \E u \in Walkers, mode \in StartModes, location \in StartLocations,
          cids \in SUBSET ContactIds, gids \in SUBSET ContactIds :
            Start(u, mode, location, cids, gids)
    \/ \E u \in Callers, sid \in SessionIds, lat \in Coordinates, lng \in Coordinates :
            UpdateLocation(u, sid, lat, lng)
    \/ \E r \in Reqs, u \in Callers, sid \in SessionIds :
            CheckInsBegun(sid) < MaxAppends /\ CheckInDate(r, u, sid)
    \/ \E r \in Reqs : CheckIn(r)
    \/ \E r \in Reqs, u \in Callers, sid \in SessionIds, location \in EndLocations :
            EndFind(r, u, sid, location)
    \/ \E r \in Reqs : EndSave(r)
    \/ \E r \in Reqs, u \in Callers, sid \in SessionIds, location \in PanicLocations,
          impl \in Impls :
            PanicsBegun < MaxAppends /\ PanicDate(r, u, sid, location, impl)
    \/ \E r \in Reqs : PanicAppend(r)
    \/ \E r \in Reqs : PanicNotFound(r)
    \/ \E r \in Reqs : PanicResolve(r)
    \/ \E r \in Reqs : PanicNoRecipients(r)
    \/ \E r \in Reqs : PanicInsertOk(r)
    \/ \E r \in Reqs, k \in 0..MaxBatch : PanicInsertFail(r, k)
    \/ \E u \in ContactCallers, cid \in ContactIds, body \in ContactBodies :
            UpdateContact(u, cid, body)
    \/ \E u \in ContactCallers, cid \in ContactIds : DeleteContact(u, cid)
    \/ \E r \in Reqs, u \in Users, sid \in SessionIds : LiveFind(r, u, sid)
    \/ \E r \in Reqs : LiveAuthorize(r)
    \/ \E r \in Reqs, u \in Users : GuardianContactsFind(r, u)
    \/ \E r \in Reqs : GuardianWalksFind(r)
    \/ \E r \in Reqs, u \in Callers, lat \in Coordinates, lng \in Coordinates :
            LocationDate(r, u, "s1", lat, lng)
    \/ \E r \in Reqs : LocationSet(r)
    \/ \E u \in Users : MarkAllRead(u)
    \/ \E u \in Users, nid \in 1..(Len(notifications) + 1) : MarkRead(u, nid)
    \/ \E r \in Reqs, u \in Users, unreadOnly \in BOOLEAN, limit \in Limits :
            ListFind(r, u, unreadOnly, limit)
    \/ \E r \in Reqs : ListCount(r)

Spec == Init /\ [][Next]_vars

(***************************************************************************)
(* The panic fan-out, checked on its own: the walker and another account   *)
(* fill the contact directory, then the walker starts a session            *)
(* referencing contacts and panics (request r1).                           *)
(***************************************************************************)
FanoutContactInputs ==
    {<<"u1", BodyEmailU2>>, <<"u1", BodyPhoneU3>>, <<"u1", BodyBoth>>,
     <<"u1", BodyNobody>>, <<"u1", BodyEmergency>>, <<"u3", BodyEmailU2>>}

FanoutStartRefs ==
    {<<{}, {}>>, <<{}, {"c1"}>>, <<{"c1"}, {"c2"}>>, <<{}, {"c1", "c2"}>>,
     <<{"c1", "c2"}, {}>>}

NextFanout ==
    \/ \E p \in FanoutContactInputs :
            ~walks["s1"].exists /\ CreateContact(p[1], p[2])
    \/ \E refs \in FanoutStartRefs :
            Start("u1", "guardian", Def(Loc(1, 1)), refs[1], refs[2])
    \/ \E u \in Callers, impl \in Impls :
            PanicsBegun < MaxPanics /\ PanicDate("r1", u, "s1", Undefined, impl)
    \/ PanicAppend("r1")
    \/ PanicNotFound("r1")
    \/ PanicResolve("r1")
    \/ PanicNoRecipients("r1")
    \/ PanicInsertOk("r1")
    \/ \E k \in 0..MaxBatch : PanicInsertFail("r1", k)

SpecFanout == Init /\ [][NextFanout]_vars

(***************************************************************************)
(* The alert of one panic, checked on its own: the walker has created two  *)
(* guardian contacts (resolving to u2 and to u3), starts a session, moves,  *)
(* panics with or without a reported location (request r1) and ends the    *)
(* walk (request r2), with the clock advancing.                            *)
(***************************************************************************)
InitAlert ==
    /\ now = 0
    /\ walks = [s \in SessionIds |-> NoDoc]
    /\ contacts = [c \in ContactIds |->
                    IF c = "c1" THEN ContactData("u1", BodyEmailU2)
                    ELSE ContactData("u1", BodyPhoneU3)]
    /\ notifications = <<>>
    /\ reqs = [r \in Reqs |-> [pc |-> "idle"]]
    /\ lastRes = [op |-> "none"]
    /\ callSeq = 0
    /\ failedPanics = {}

NextAlert ==
    \/ Tick
    \/ \E gids \in {{"c1"}, {"c1", "c2"}} :
            Start("u1", "guardian", Def(Loc(1, 1)), {}, gids)
    \/ UpdateLocation("u1", "s1", Def(2), Def(2))
    \/ \E location \in PanicLocations, impl \in Impls :
            PanicsBegun < MaxPanics /\ PanicDate("r1", "u1", "s1", location, impl)
    \/ PanicAppend("r1")
    \/ PanicNotFound("r1")
    \/ PanicResolve("r1")
    \/ PanicInsertOk("r1")
    \/ \E k \in 0..MaxBatch : PanicInsertFail("r1", k)
    \/ EndFind("r2", "u1", "s1", Undefined)
    \/ EndSave("r2")

SpecAlert == InitAlert /\ [][NextAlert]_vars

(***************************************************************************)
(* The session lifecycle, checked on its own: no contacts, one session,    *)
(* the owner calling every session operation, with two requests in flight  *)
(* and the clock advancing.                                                *)
(***************************************************************************)
NextEnd ==
    \/ Tick
    \/ Start("u1", "guardian", Def(Loc(1, 1)), {}, {})
    \/ UpdateLocation("u1", "s1", Def(2), Def(2))
    \/ CheckInsBegun("s1") < MaxCheckIns /\ CheckInDate("r1", "u1", "s1")
    \/ CheckIn("r1")
    \/ \E r \in Reqs, location \in EndLocations : EndFind(r, "u1", "s1", location)
    \/ \E r \in Reqs : EndSave(r)
    \/ PanicsBegun < MaxPanics /\ PanicDate("r1", "u1", "s1", Undefined, "part_002")
    \/ PanicAppend("r1")
    \/ PanicNotFound("r1")
    \/ PanicResolve("r1")
    \/ PanicNoRecipients("r1")

SpecEnd == Init /\ [][NextEnd]_vars

(***************************************************************************)
(* The appends, checked on their own: no contacts, one session, the owner  *)
(* checking in and panicking on two requests in flight, moving and ending  *)
(* the walk, with the clock advancing.                                     *)
(***************************************************************************)
\* The appends begun so far, of either kind.
AppendsBegun == CheckInsBegun("s1") + PanicsBegun

NextAppend ==
    \/ Tick
    \/ Start("u1", "guardian", Def(Loc(1, 1)), {}, {})
    \/ UpdateLocation("u1", "s1", Def(2), Def(2))
    \/ \E r \in Reqs : AppendsBegun < MaxAppends /\ CheckInDate(r, "u1", "s1")
    \/ \E r \in Reqs : CheckIn(r)
    \/ \E r \in Reqs :
            AppendsBegun < MaxAppends /\ PanicDate(r, "u1", "s1", Undefined, "part_002")
    \/ \E r \in Reqs : PanicAppend(r)
    \/ \E r \in Reqs : PanicNotFound(r)
    \/ \E r \in Reqs : PanicResolve(r)
    \/ \E r \in Reqs : PanicNoRecipients(r)
    \/ EndFind("r2", "u1", "s1", Undefined)
    \/ EndSave("r2")

SpecAppend == Init /\ [][NextAppend]_vars

(***************************************************************************)
(* The live location, checked on its own: accounts fill the contact        *)
(* directory, a walker starts a session naming guardians, the walker's     *)
(* contacts are then updated and deleted, and every account polls the      *)
(* live location, on two requests in flight.                               *)
(***************************************************************************)
LiveContactInputs ==
    {<<"u1", BodyEmailU2>>, <<"u1", BodyPhoneU3>>, <<"u1", BodyEmergency>>,
     <<"u3", BodyEmailU2>>}

LiveUpdateBodies == {BodyEmailU2, BodyPhoneU3, BodyNobody, BodyEmergency, BodyInvalid}

LiveWalkers == {"u1", "u4"}

LiveGuardianRefs == {{}, {"c1"}, {"c1", "c2"}}

NextLive ==
    \/ \E p \in LiveContactInputs :
            ~walks["s1"].exists /\ CreateContact(p[1], p[2])
    \/ \E u \in LiveWalkers, gids \in LiveGuardianRefs :
            Start(u, "guardian", Def(Loc(1, 1)), {}, gids)
    \/ \E cid \in ContactIds, body \in LiveUpdateBodies :
            walks["s1"].exists /\ UpdateContact("u1", cid, body)
    \/ \E cid \in ContactIds : walks["s1"].exists /\ DeleteContact("u1", cid)
    \/ \E r \in Reqs, u \in Users : LiveFind(r, u, "s1")
    \/ \E r \in Reqs : LiveAuthorize(r)

SpecLive == Init /\ [][NextLive]_vars

(***************************************************************************)
(* Ownership, checked on its own: the walker has two guardian contacts     *)
(* (InitAlert), starts a session naming the first, and the walker and the  *)
(* guardian account u2 both call every mutating operation, before and      *)
(* after the end of the walk, with the clock advancing.                    *)
(***************************************************************************)
OwnerLatitudes == {Undefined, Def(0), Def(2)}

NextOwner ==
    \/ Tick
    \/ Start("u1", "guardian", Def(Loc(1, 1)), {}, {"c1"})
    \/ \E u \in Callers, lat \in OwnerLatitudes : UpdateLocation(u, "s1", lat, Def(2))
    \/ \E u \in Callers :
            CheckInsBegun("s1") < MaxCheckIns /\ CheckInDate("r1", u, "s1")
    \/ CheckIn("r1")
    \/ \E u \in Callers :
            PanicsBegun < MaxPanics /\ PanicDate("r1", u, "s1", Undefined, "part_002")
    \/ PanicAppend("r1")
    \/ PanicNotFound("r1")
    \/ PanicResolve("r1")
    \/ PanicInsertOk("r1")
    \/ \E u \in Callers : EndFind("r2", u, "s1", Undefined)
    \/ EndSave("r2")

SpecOwner == InitAlert /\ [][NextOwner]_vars

(***************************************************************************)
(* The duration, checked on its own: a session the walker started at clock *)
(* 0 is ended, by two requests in flight, when the clock shows one of the  *)
(* elapsed times below (minutes below and above the hour, seconds and      *)
(* milliseconds at both ends of their range).                              *)
(***************************************************************************)
DurationMinutes == {0, 1, 2, 9, 10, 59, 60, 62, 99, 100}
DurationSeconds == {0, 5, 9, 10, 59}
DurationMillis == {0, 999}

ElapsedTimes ==
    {m * MsPerMinute + sec * MsPerSecond + ms :
        m \in DurationMinutes, sec \in DurationSeconds, ms \in DurationMillis}

InitDuration ==
    /\ now \in ElapsedTimes
    /\ walks = [s \in SessionIds |->
                  [NewWalk("u1", "guardian", Def(Loc(1, 1)), {}, {})
                      EXCEPT !.startTime = 0]]
    /\ contacts = [c \in ContactIds |-> NoDoc]
    /\ notifications = <<>>
    /\ reqs = [r \in Reqs |-> [pc |-> "idle"]]
    /\ lastRes = [op |-> "none"]
    /\ callSeq = 0
    /\ failedPanics = {}

NextDuration ==
    \/ \E r \in Reqs, location \in EndLocations : EndFind(r, "u1", "s1", location)
    \/ \E r \in Reqs : EndSave(r)

SpecDuration == InitDuration /\ [][NextDuration]_vars

(***************************************************************************)
(* The inbox, checked on its own: the walker has two guardian contacts     *)
(* (InitAlert), starts a session naming both and panics; the two guardian  *)
(* accounts and the walker mark their notifications read at any time, with *)
(* the clock advancing.                                                    *)
(***************************************************************************)
InboxReaders == {"u1", "u2", "u3"}

NextInbox ==
    \/ Tick
    \/ Start("u1", "guardian", Def(Loc(1, 1)), {}, {"c1", "c2"})
    \/ PanicsBegun < MaxAppends /\ PanicDate("r1", "u1", "s1", Undefined, "part_002")
    \/ PanicAppend("r1")
    \/ PanicNotFound("r1")
    \/ PanicResolve("r1")
    \/ PanicInsertOk("r1")
    \/ \E u \in InboxReaders : MarkAllRead(u)

SpecInbox == InitAlert /\ [][NextInbox]_vars

(***************************************************************************)
(* Concurrent requests on one session, checked on their own: the walker    *)
(* starts a session without contacts; location updates run on both         *)
(* request slots, check-ins and panics on r1 and end on r2, every handler  *)
(* step interleaved with the others and with the clock.                    *)
(***************************************************************************)
MovePoints == {Loc(2, 2), Loc(3, 5)}

NextMove ==
    \/ Tick
    \/ Start("u1", "guardian", Def(Loc(1, 1)), {}, {})
    \/ \E r \in Reqs, p \in MovePoints :
            LocationDate(r, "u1", "s1", Def(p.lat), Def(p.lng))
    \/ \E r \in Reqs : LocationSet(r)
    \/ AppendsBegun < MaxAppends /\ CheckInDate("r1", "u1", "s1")
    \/ CheckIn("r1")
    \/ AppendsBegun < MaxAppends /\ PanicDate("r1", "u1", "s1", Undefined, "part_002")
    \/ PanicAppend("r1")
    \/ PanicNotFound("r1")
    \/ PanicResolve("r1")
    \/ PanicNoRecipients("r1")
    \/ EndFind("r2", "u1", "s1", Undefined)
    \/ EndSave("r2")

SpecMove == Init /\ [][NextMove]_vars

(***************************************************************************)
(* Validation, checked on its own: the walker (InitAlert) sends start and  *)
(* location requests with valid and invalid bodies, checks in (request r1) *)
(* and ends the walk (request r2), with the clock advancing.               *)
(***************************************************************************)
ValidateCoordinates == {Undefined, Def(2), Def(3)}

NextValidate ==
    \/ Tick
    \/ \E mode \in StartModes, location \in StartLocations :
            Start("u1", mode, location, {}, {"c1"})
    \/ \E lat, lng \in ValidateCoordinates : UpdateLocation("u1", "s1", lat, lng)
    \/ CheckInsBegun("s1") < MaxCheckIns /\ CheckInDate("r1", "u1", "s1")
    \/ CheckIn("r1")
    \/ EndFind("r2", "u1", "s1", Undefined)
    \/ EndSave("r2")

SpecValidate == InitAlert /\ [][NextValidate]_vars

(***************************************************************************)
(* The guardian's list of active walks, checked on its own: contacts are   *)
(* created by the walker and by another account, the walker starts a       *)
(* session referencing them as contacts or as guardians and ends it        *)
(* (request r2), and the other accounts ask for the walks they guard       *)
(* (request r1) and for the live location of the session (request r2).     *)
(***************************************************************************)
PollContactInputs ==
    {<<"u1", BodyEmailU2>>, <<"u1", BodyPhoneU3>>, <<"u1", BodyTrimmedU3>>,
     <<"u1", BodyEmergency>>, <<"u3", BodyEmailU2>>}

PollStartRefs ==
    {<<{"c1"}, {}>>, <<{}, {"c1"}>>, <<{"c2"}, {"c1"}>>, <<{}, {"c1", "c2"}>>}

PollCallers == {"u2", "u3", "u4"}

NextPoll ==
    \/ \E p \in PollContactInputs :
            ~walks["s1"].exists /\ CreateContact(p[1], p[2])
    \/ \E refs \in PollStartRefs :
            Start("u1", "guardian", Def(Loc(1, 1)), refs[1], refs[2])
    \/ EndFind("r2", "u1", "s1", Undefined)
    \/ EndSave("r2")
    \/ \E u \in PollCallers : GuardianContactsFind("r1", u)
    \/ GuardianWalksFind("r1")
    \/ \E u \in PollCallers : LiveFind("r2", u, "s1")
    \/ LiveAuthorize("r2")

SpecPoll == Init /\ [][NextPoll]_vars

(***************************************************************************)
(* Marking one notification read, checked on its own: the walker           *)
(* (InitAlert) starts a session naming both guardian contacts and panics,  *)
(* and the accounts u2 and u3 mark single notifications read.              *)
(***************************************************************************)
NextRead ==
    \/ Tick
    \/ Start("u1", "guardian", Def(Loc(1, 1)), {}, {"c1", "c2"})
    \/ PanicsBegun < MaxPanics /\ PanicDate("r1", "u1", "s1", Undefined, "part_002")
    \/ PanicAppend("r1")
    \/ PanicNotFound("r1")
    \/ PanicResolve("r1")
    \/ PanicInsertOk("r1")
    \/ \E u \in {"u2", "u3"}, nid \in 1..(Len(notifications) + 1) : MarkRead(u, nid)

SpecRead == InitAlert /\ [][NextRead]_vars

(***************************************************************************)
(* The notification sink under every operation that touches it, checked on *)
(* its own: the walker (InitAlert) starts a session naming both guardian   *)
(* contacts and panics, the batch being persisted whole or in part, and    *)
(* the accounts u2 and u3 mark one notification or their whole inbox read. *)
(***************************************************************************)
SinkReaders == {"u2", "u3"}

NextSink ==
    \/ Start("u1", "guardian", Def(Loc(1, 1)), {}, {"c1", "c2"})
    \/ PanicsBegun < MaxAppends /\ PanicDate("r1", "u1", "s1", Undefined, "part_002")
    \/ PanicAppend("r1")
    \/ PanicNotFound("r1")
    \/ PanicResolve("r1")
    \/ PanicInsertOk("r1")
    \/ \E k \in 0..MaxBatch : PanicInsertFail("r1", k)
    \/ \E u \in SinkReaders, nid \in 1..(Len(notifications) + 1) : MarkRead(u, nid)
    \/ \E u \in SinkReaders : MarkAllRead(u)

SpecSink == InitAlert /\ [][NextSink]_vars

(***************************************************************************)
(* Every request is answered, checked on its own: the walker (InitAlert)   *)
(* starts a session with or without a guardian, and the requests that      *)
(* take more than one step run on the two slots (location, check-in, panic *)
(* and live location on r1, end and list on r2) next to the one-step       *)
(* requests.  A handler that waits for the store is resumed when the store *)
(* answers: every enabled continuation of a request is eventually taken.   *)
(***************************************************************************)
RespondGuardianRefs == {{}, {"c1"}}

\* The continuations of the request in slot r.
Resume(r) ==
    \/ LocationSet(r)
    \/ CheckIn(r)
    \/ PanicAppend(r)
    \/ PanicNotFound(r)
    \/ PanicResolve(r)
    \/ PanicNoRecipients(r)
    \/ PanicInsertOk(r)
    \/ \E k \in 0..MaxBatch : PanicInsertFail(r, k)
    \/ EndSave(r)
    \/ LiveAuthorize(r)
    \/ ListCount(r)

NextRespond ==
    \/ \E gids \in RespondGuardianRefs :
            Start("u1", "guardian", Def(Loc(1, 1)), {}, gids)
    \/ \E lat \in {Undefined, Def(2)} : LocationDate("r1", "u1", "s1", lat, Def(2))
    \/ AppendsBegun < MaxPanics /\ CheckInDate("r1", "u1", "s1")
    \/ \E impl \in Impls :
            AppendsBegun < MaxPanics /\ PanicDate("r1", "u1", "s1", Undefined, impl)
    \/ \E u \in Callers : LiveFind("r1", u, "s1")
    \/ EndFind("r2", "u1", "s1", Undefined)
    \/ ListFind("r2", "u2", FALSE, Undefined)
    \/ \E nid \in 1..(Len(notifications) + 1) : MarkRead("u2", nid)
    \/ MarkAllRead("u2")
    \/ \E r \in Reqs : Resume(r)

SpecRespond ==
    /\ InitAlert
    /\ [][NextRespond]_vars
    /\ \A r \in Reqs : WF_vars(Resume(r))

(***************************************************************************)
(* Listing the inbox, checked on its own: the walker (InitAlert) starts a  *)
(* session naming the guardian contact of account u2 and panics, so every  *)
(* notification is addressed to u2, who marks the inbox read and lists it  *)
(* (request r2), with the clock advancing.                                 *)
(***************************************************************************)
NextList ==
    \/ Tick
    \/ Start("u1", "guardian", Def(Loc(1, 1)), {}, {"c1"})
    \/ PanicsBegun < MaxAppends /\ PanicDate("r1", "u1", "s1", Undefined, "part_002")
    \/ PanicAppend("r1")
    \/ PanicNotFound("r1")
    \/ PanicResolve("r1")
    \/ PanicInsertOk("r1")
    \/ MarkAllRead("u2")
    \/ \E unreadOnly \in BOOLEAN, limit \in Limits :
            ListFind("r2", "u2", unreadOnly, limit)
    \/ ListCount("r2")

SpecList == InitAlert /\ [][NextList]_vars

(***************************************************************************)
(* Properties of the session lifecycle (SpecEnd).                          *)
(***************************************************************************)
EndSucceeded(r) ==
    /\ reqs[r].pc = "done"
    /\ reqs[r].op = "end"
    /\ reqs[r].res.status = 200

EndNotFound(r) ==
    /\ reqs[r].pc = "done"
    /\ reqs[r].op = "end"
    /\ reqs[r].res.status = 404

\* C2: of two end calls by the owner racing on one active session, exactly
\* one succeeds and the other fails with NotFound, so endTime and duration
\* are written once: never have two end calls on the same session both
\* succeeded.
C2_OneEndSucceeds ==
    \A r1, r2 \in Reqs :
        (r1 # r2 /\ EndSucceeded(r1) /\ EndSucceeded(r2))
            => reqs[r1].sid # reqs[r2].sid

\* C3: for every session, isActive is false iff endTime is set, and
\* duration is set exactly when endTime is set.
C3_InactiveIffEnded ==
    \A sid \in SessionIds :
        walks[sid].exists =>
            /\ (~walks[sid].isActive) <=> IsDef(walks[sid].endTime)
            /\ IsDef(walks[sid].duration) <=> IsDef(walks[sid].endTime)

\* C3 witness: a session that was moved, checked in, panicked and ended.
C3_Witness ==
    /\ walks["s1"].exists
    /\ ~walks["s1"].isActive
    /\ IsDef(walks["s1"].endTime)
    /\ IsDef(walks["s1"].currentLocation)
    /\ Len(walks["s1"].checkIns) > 0
    /\ Len(walks["s1"].panicEvents) > 0

\* C4: an end call by the owner that begins when the session has already
\* been ended answers NotFound in that step and changes no session.
C4_SecondEndFails ==
    [][\A r \in Reqs :
          (/\ CanBegin(r)
           /\ reqs'[r] # reqs[r]
           /\ reqs'[r].op = "end"
           /\ walks[reqs'[r].sid].exists
           /\ walks[reqs'[r].sid].userId = reqs'[r].userId
           /\ ~walks[reqs'[r].sid].isActive)
          => /\ reqs'[r].pc = "done"
             /\ reqs'[r].res.status = 404
             /\ walks' = walks]_vars

\* C4 witness: the owner's end was answered NotFound on a session that a
\* previous end had closed, and the first end's values are in place.
C4_Witness ==
    \E r \in Reqs :
        /\ EndNotFound(r)
        /\ walks[reqs[r].sid].exists
        /\ walks[reqs[r].sid].userId = reqs[r].userId
        /\ ~walks[reqs[r].sid].isActive
        /\ IsDef(walks[reqs[r].sid].endTime)
        /\ IsDef(walks[reqs[r].sid].endLocation)

(***************************************************************************)
(* Properties of the panic fan-out (SpecFanout, SpecAlert).                 *)
(***************************************************************************)
\* The identity match of a contact and an account as the design states it:
\* emails compared case-insensitively after trimming, phones after trimming.
Matches(u, contact) ==
    \/ /\ contact.email # NoStr
       /\ UserDoc(u).email # NoStr
       /\ trim(toLowerCase(contact.email)) = trim(toLowerCase(UserDoc(u).email))
    \/ /\ contact.phone # NoStr
       /\ UserDoc(u).phone # NoStr
       /\ trim(contact.phone) = trim(UserDoc(u).phone)

\* The guardian-role contacts a session references, and the accounts they match.
GuardianContacts(sid) ==
    {c \in walks[sid].contactIds \cup walks[sid].guardianIds :
        contacts[c].exists /\ contacts[c].type = "guardian"}

GuardianAccounts(sid) ==
    {u \in Users : \E c \in GuardianContacts(sid) : Matches(u, contacts[c])}

\* A panic request that passed the conditional append and has been answered.
PanicAnswered(r) ==
    /\ reqs[r].pc = "done"
    /\ reqs[r].op = "panic"
    /\ reqs[r].res.status # 404

\* The notifications in the sink that came from one panic call.
SentBy(call) == {i \in 1..Len(notifications) : notifications[i].call = call}

Elements(seq) == {seq[i] : i \in 1..Len(seq)}

\* C1: the notifications one panic call writes to the sink have pairwise
\* different recipients.
C1_OneNotificationPerRecipient ==
    \A i, j \in 1..Len(notifications) :
        (/\ notifications[i].call = notifications[j].call
         /\ notifications[i].userId = notifications[j].userId) => i = j

\* C5: a panic by the owner on an active session whose guardian contacts
\* match no account answers success with notificationsSent = 0, writes
\* nothing to the sink, and its timestamp is in panicEvents, which has
\* grown by one per accepted panic.
C5_ZeroRecipients ==
    \A r \in Reqs :
        (PanicAnswered(r) /\ GuardianAccounts(reqs[r].sid) = {})
            => /\ reqs[r].res.status = 200
               /\ reqs[r].res.notificationsSent = 0
               /\ SentBy(reqs[r].call) = {}
               /\ reqs[r].ts \in Elements(walks[reqs[r].sid].panicEvents)
               /\ Len(walks[reqs[r].sid].panicEvents) = callSeq

\* C5 witness: the session references a guardian contact, none matches an
\* account, and the panic has been answered.
C5_Witness ==
    \E r \in Reqs :
        /\ PanicAnswered(r)
        /\ GuardianContacts(reqs[r].sid) # {}
        /\ GuardianAccounts(reqs[r].sid) = {}
        /\ reqs[r].res.notificationsSent = 0
        /\ Len(walks[reqs[r].sid].panicEvents) = 1

\* C6: after a panic whose batch was persisted, every account matching a
\* guardian-role contact the session references has an unread panic
\* notification from that call; with one guardian contact matching one
\* account, notificationsSent = 1 and that account has exactly one.
C6_EveryGuardianNotified ==
    \A r \in Reqs :
        (PanicAnswered(r) /\ ~reqs[r].failed)
            => /\ \A u \in GuardianAccounts(reqs[r].sid) :
                    \E i \in SentBy(reqs[r].call) :
                        /\ notifications[i].userId = u
                        /\ notifications[i].type = "panic"
                        /\ ~notifications[i].isRead
               /\ (/\ Cardinality(GuardianContacts(reqs[r].sid)) = 1
                   /\ Cardinality(GuardianAccounts(reqs[r].sid)) = 1)
                  => /\ reqs[r].res.notificationsSent = 1
                     /\ \A u \in GuardianAccounts(reqs[r].sid) :
                            Cardinality({i \in SentBy(reqs[r].call) :
                                            notifications[i].userId = u}) = 1

\* C7: the location in every panic notification is the reported location
\* if one was given, else the session's currentLocation if one was
\* recorded, else its startLocation; it is never missing, and a session
\* that never received a location update yields startLocation when no
\* location was reported.
C7_LocationPriority ==
    /\ \A r \in Reqs :
          (reqs[r].pc = "resolved" \/ PanicAnswered(r))
          => \A i \in 1..Len(reqs[r].batch) :
                LET loc == reqs[r].batch[i].metadata.location
                    session == walks[reqs[r].sid]
                IN /\ IsDef(reqs[r].location) => loc = Val(reqs[r].location)
                   /\ (~IsDef(reqs[r].location) /\ IsDef(reqs[r].walk.currentLocation))
                        => loc = Val(reqs[r].walk.currentLocation)
                   /\ (~IsDef(reqs[r].location) /\ ~IsDef(session.currentLocation))
                        => loc = session.startLocation
                   /\ (~IsDef(reqs[r].location) /\ IsDef(session.currentLocation)
                          /\ Val(session.currentLocation).updatedAt < reqs[r].ts)
                        => loc = Val(session.currentLocation)
    /\ \A i \in 1..Len(notifications) :
          notifications[i].type = "panic"
            => /\ notifications[i].metadata.location # Undefined
               /\ {"lat", "lng"} \subseteq DOMAIN notifications[i].metadata.location

\* C8: once insertMany has failed for a panic, the panic's timestamp stays
\* in the session's panicEvents, which keeps one entry per accepted panic.
C8_PanicEventKept ==
    \A p \in failedPanics :
        /\ p[2] \in Elements(walks[p[1]].panicEvents)
        /\ Len(walks[p[1]].panicEvents) = callSeq

\* C8 witness: the insert failed, and the session has since been ended.
C8_Witness ==
    /\ failedPanics # {}
    /\ walks["s1"].exists
    /\ ~walks["s1"].isActive
    /\ Len(walks["s1"].panicEvents) > 0

\* C9: a panic whose insertMany failed is answered with the partial-success
\* result (panic recorded), not with an error.
C9_FailureIsPartialSuccess ==
    \A r \in Reqs :
        (PanicAnswered(r) /\ reqs[r].failed)
            => /\ reqs[r].res.status = 200
               /\ reqs[r].res.panicTriggered

\* C10: the notificationsSent a panic call returns is the number of
\* notifications the call added to the sink.
C10_SentIsDelivered ==
    \A r \in Reqs :
        (PanicAnswered(r) /\ reqs[r].res.status = 200)
            => reqs[r].res.notificationsSent = Cardinality(SentBy(reqs[r].call))

(***************************************************************************)
(* Properties of the appends (SpecAppend).                                 *)
(***************************************************************************)
NonDecreasing(seq) == \A i \in 1..(Len(seq) - 1) : seq[i] <= seq[i + 1]

IsPrefix(a, b) == Len(a) <= Len(b) /\ SubSeq(b, 1, Len(a)) = a

\* C11: in every session the checkIns and the panicEvents are non-decreasing
\* in time, and no step shrinks either list or changes an element it holds.
C11_AppendsInTimeOrder ==
    /\ [](\A sid \in SessionIds :
            walks[sid].exists =>
                /\ NonDecreasing(walks[sid].checkIns)
                /\ NonDecreasing(walks[sid].panicEvents))
    /\ [][\A sid \in SessionIds :
            walks[sid].exists =>
                /\ IsPrefix(walks[sid].checkIns, walks'[sid].checkIns)
                /\ IsPrefix(walks[sid].panicEvents, walks'[sid].panicEvents)]_vars

\* The requests whose append is accepted by the step.
CheckInsAccepted(sid) ==
    {r \in Reqs : /\ reqs[r].pc = "sent"
                  /\ reqs[r].op = "checkin"
                  /\ reqs[r].sid = sid
                  /\ reqs'[r].pc = "done"
                  /\ reqs'[r].res.status = 200}

PanicsAccepted(sid) ==
    {r \in Reqs : /\ reqs[r].pc = "sent"
                  /\ reqs[r].op = "panic"
                  /\ reqs[r].sid = sid
                  /\ reqs'[r].pc = "appended"}

\* C12: every step grows checkIns (panicEvents) by exactly the number of
\* check-in (panic) calls it accepts, keeps what was there and puts the
\* accepted call's timestamp last: with calls in flight together, N
\* accepted calls have grown the list by N.
C12_NoAppendLost ==
    [][\A sid \in SessionIds :
          walks[sid].exists =>
            /\ Len(walks'[sid].checkIns)
                  = Len(walks[sid].checkIns) + Cardinality(CheckInsAccepted(sid))
            /\ Len(walks'[sid].panicEvents)
                  = Len(walks[sid].panicEvents) + Cardinality(PanicsAccepted(sid))
            /\ IsPrefix(walks[sid].checkIns, walks'[sid].checkIns)
            /\ IsPrefix(walks[sid].panicEvents, walks'[sid].panicEvents)
            /\ \A r \in CheckInsAccepted(sid) :
                  walks'[sid].checkIns[Len(walks'[sid].checkIns)] = reqs[r].ts
            /\ \A r \in PanicsAccepted(sid) :
                  walks'[sid].panicEvents[Len(walks'[sid].panicEvents)] = reqs[r].ts]_vars

\* C12 witness: two check-ins that were in flight together (the one that
\* took its timestamp first was applied last) have both been answered with
\* success, and both timestamps are in the list.
C12_Witness ==
    /\ \A r \in Reqs :
          /\ reqs[r].pc = "done"
          /\ reqs[r].op = "checkin"
          /\ reqs[r].res.status = 200
    /\ reqs["r1"].ts < reqs["r2"].ts
    /\ walks["s1"].checkIns = <<reqs["r2"].ts, reqs["r1"].ts>>

(***************************************************************************)
(* Properties of the live location (SpecLive).                             *)
(***************************************************************************)
\* The step answers the live-location request r.
LiveAnswers(r) ==
    /\ reqs[r].pc = "found"
    /\ reqs[r].op = "live"
    /\ reqs'[r].pc = "done"

\* The caller matches a guardian-role contact among the session's
\* guardianIds, in the contact store as it is when the request is answered.
IsGuardianOf(u, walk) ==
    \E c \in walk.guardianIds :
        /\ contacts[c].exists
        /\ contacts[c].type = "guardian"
        /\ Matches(u, contacts[c])

C14_OwnerAlwaysReads ==
    [][\A r \in Reqs :
          (LiveAnswers(r) /\ reqs[r].userId = reqs[r].walk.userId)
            => /\ reqs'[r].res.status = 200
               /\ "location" \in DOMAIN reqs'[r].res]_vars

LocationAnswered ==
    /\ lastRes'.op = "location"
    /\ lastRes' # lastRes

NumericPoint(q) == IsDef(q.lat) /\ IsDef(q.lng)

\* The step answers the check-in, the panic or the end of request r with
\* NotFound.
RefusedNotFound(r) ==
    /\ reqs'[r].pc = "done"
    /\ reqs'[r].res.status = 404

\* The step applies the update of the check-in or panic r was sent with, or
\* takes up the end request r.
Applies(r, op) ==
    /\ reqs'[r] # reqs[r]
    /\ reqs'[r].op = op
    /\ IF op = "end" THEN CanBegin(r) ELSE reqs[r].pc = "sent" /\ reqs[r].op = op

\* C16: a location update with numeric lat and lng (0 included) is answered
\* NotFound exactly when the caller has no active session of that id, and
\* otherwise succeeds and overwrites currentLocation (lat, lng, the
\* timestamp of the call) and endLocation with the new point.
C16_LocationUpdate ==
    [][(LocationAnswered /\ NumericPoint(lastRes')) =>
          LET q == lastRes'
          IN /\ q.status = 404 <=> ~OwnedActive(q.sid, q.userId)
             /\ OwnedActive(q.sid, q.userId) =>
                  /\ q.status = 200
                  /\ walks'[q.sid].currentLocation =
                        Def([lat |-> Val(q.lat), lng |-> Val(q.lng), updatedAt |-> now])
                  /\ walks'[q.sid].endLocation = Def(Loc(Val(q.lat), Val(q.lng)))]_vars

\* C17: a location update, check-in, panic or end of a caller who is not
\* the owner of the session is answered NotFound, and leaves every session
\* and the notifications as they were.
C17_OnlyOwnerMutates ==
    [][/\ (/\ LocationAnswered
           /\ NumericPoint(lastRes')
           /\ walks[lastRes'.sid].exists
           /\ walks[lastRes'.sid].userId # lastRes'.userId)
          => /\ lastRes'.status = 404
             /\ walks' = walks
             /\ notifications' = notifications
       /\ \A r \in Reqs, op \in {"checkin", "panic", "end"} :
            (/\ Applies(r, op)
             /\ walks[reqs'[r].sid].exists
             /\ walks[reqs'[r].sid].userId # reqs'[r].userId)
            => /\ RefusedNotFound(r)
               /\ walks' = walks
               /\ notifications' = notifications]_vars

\* C18: a session that is not active never becomes active again, and a
\* location update, check-in or panic on it is answered NotFound, leaving
\* the session and the notifications as they were.
C18_EndedIsTerminal ==
    [][/\ \A sid \in SessionIds :
            (walks[sid].exists /\ ~walks[sid].isActive) => ~walks'[sid].isActive
       /\ (/\ LocationAnswered
           /\ NumericPoint(lastRes')
           /\ walks[lastRes'.sid].exists
           /\ ~walks[lastRes'.sid].isActive)
          => /\ lastRes'.status = 404
             /\ walks' = walks
             /\ notifications' = notifications
       /\ \A r \in Reqs, op \in {"checkin", "panic"} :
            (/\ Applies(r, op)
             /\ walks[reqs'[r].sid].exists
             /\ ~walks[reqs'[r].sid].isActive)
            => /\ RefusedNotFound(r)
               /\ walks' = walks
               /\ notifications' = notifications]_vars

(***************************************************************************)
(* Properties of the duration (SpecDuration).                              *)
(***************************************************************************)
DigitValue(c) ==
    CASE c = "0" -> 0 [] c = "1" -> 1 [] c = "2" -> 2 [] c = "3" -> 3
      [] c = "4" -> 4 [] c = "5" -> 5 [] c = "6" -> 6 [] c = "7" -> 7
      [] c = "8" -> 8 [] c = "9" -> 9 [] OTHER -> -1

IsDigits(str) == \A i \in 1..Len(str) : DigitValue(str[i]) >= 0

RECURSIVE ParseNat(_)
ParseNat(str) ==
    IF str = <<>> THEN 0
    ELSE 10 * ParseNat(SubSeq(str, 1, Len(str) - 1)) + DigitValue(str[Len(str)])

\* str is MM:SS for the elapsed time: the minutes in at least two digits
\* without further leading zeros and not wrapped, the seconds in two digits.
IsDurationOf(str, elapsedMs) ==
    LET elapsedSeconds == elapsedMs \div 1000
    IN \E k \in 1..Len(str) :
          LET mm == SubSeq(str, 1, k - 1)
              ss == SubSeq(str, k + 1, Len(str))
          IN /\ str[k] = ":"
             /\ IsDigits(mm)
             /\ Len(mm) >= 2
             /\ Len(mm) > 2 => mm[1] # "0"
             /\ ParseNat(mm) = elapsedSeconds \div 60
             /\ IsDigits(ss)
             /\ Len(ss) = 2
             /\ ParseNat(ss) = elapsedSeconds % 60

\* C19: the duration an end records and returns is endTime - startTime as
\* MM:SS, minutes = floor(elapsed seconds / 60) not wrapped at 60 and padded
\* to two digits, seconds = floor(elapsed seconds) mod 60 in two digits;
\* 125 s is "02:05" and 3725 s is "62:05".
C19_DurationFormat ==
    /\ \A sid \in SessionIds :
          (walks[sid].exists /\ IsDef(walks[sid].duration)) =>
            LET elapsed == Val(walks[sid].endTime) - walks[sid].startTime
                duration == Val(walks[sid].duration)
            IN /\ IsDurationOf(duration, elapsed)
               /\ elapsed \div 1000 = 125 => duration = <<"0", "2", ":", "0", "5">>
               /\ elapsed \div 1000 = 3725 => duration = <<"6", "2", ":", "0", "5">>
    /\ \A r \in Reqs :
          EndSucceeded(r) =>
            IsDurationOf(reqs[r].res.duration,
                         reqs[r].res.endedAt - walks[reqs[r].sid].startTime)

\* C19 witness: a walk of 3725 s and some milliseconds has been ended, and
\* its duration shows 62 minutes.
C19_Witness ==
    /\ walks["s1"].exists
    /\ IsDef(walks["s1"].endTime)
    /\ Val(walks["s1"].endTime) - walks["s1"].startTime = 3725999
    /\ walks["s1"].duration = Def(<<"6", "2", ":", "0", "5">>)

(***************************************************************************)
(* Properties of the inbox (SpecInbox).                                    *)
(***************************************************************************)
\* The step is a markAllRead of recipient u (possibly one changing nothing).
ReadAllAnswered(u) ==
    /\ lastRes'.op = "readAll"
    /\ lastRes'.userId = u
    /\ UNCHANGED <<now, walks, contacts, reqs, callSeq, failedPanics>>

\* C20: every markAllRead succeeds and leaves the recipient's unreadCount
\* at 0; one that finds the recipient without unread notifications, as
\* after a previous markAllRead with nothing created since, leaves the whole
\* store as it was, every readAt included.
C20_MarkAllReadIdempotent ==
    [][\A u \in Users :
          ReadAllAnswered(u) =>
            /\ lastRes'.status = 200
            /\ UnreadIn(notifications', u) = 0
            /\ UnreadCount(u) = 0 => notifications' = notifications]_vars

\* C20 witness: a markAllRead that matched nothing has been answered for a
\* recipient whose notification was marked read at an earlier clock value,
\* and the earlier readAt is still there.
C20_Witness ==
    /\ lastRes.op = "readAll"
    /\ lastRes.modified = 0
    /\ \E i \in 1..Len(notifications) :
          /\ notifications[i].userId = lastRes.userId
          /\ notifications[i].isRead
          /\ Val(notifications[i].readAt) < now

(***************************************************************************)
(* Properties of marking one notification read (SpecRead).                 *)
(***************************************************************************)
\* The step answers a mark-read request.
MarkReadAnswered ==
    /\ lastRes'.op = "read"
    /\ UNCHANGED <<now, walks, contacts, reqs, callSeq, failedPanics>>

\* C21: markRead with an id that does not exist, or whose recipient is not
\* the caller, is answered NotFound (404) and changes no notification; with
\* an id of one of the caller's notifications it is answered 200 and the
\* notification is read afterwards.
C21_MarkReadOwnOnly ==
    [][MarkReadAnswered =>
         IF /\ lastRes'.nid \in 1..Len(notifications)
            /\ notifications[lastRes'.nid].userId = lastRes'.userId
         THEN /\ lastRes'.status = 200
              /\ notifications'[lastRes'.nid].isRead
         ELSE /\ lastRes'.status = 404
              /\ notifications' = notifications]_vars

\* An account was refused on another account's notification, still unread.
C21_Witness ==
    /\ lastRes.op = "read"
    /\ lastRes.status = 404
    /\ lastRes.nid \in 1..Len(notifications)
    /\ notifications[lastRes.nid].userId # lastRes.userId
    /\ ~notifications[lastRes.nid].isRead
    /\ \E i \in 1..Len(notifications) :
          notifications[i].userId = lastRes.userId /\ notifications[i].isRead

(***************************************************************************)
(* Properties of listing the inbox (SpecList).                             *)
(***************************************************************************)
\* The notifications request r has found, whether or not it has answered.
Listed(r) == IF reqs[r].pc = "done" THEN reqs[r].res.notifications ELSE reqs[r].items

\* The limit the caller asked for.
AskedLimit(r) == IF IsDef(reqs[r].limit) THEN Val(reqs[r].limit) ELSE DefaultLimit

\* C22: list returns only notifications whose recipient is the caller,
\* newest first, at most limit of them (50 when none is given), only unread
\* ones when unreadOnly is set; and the unreadCount it returns is the number
\* of the caller's unread notifications, whatever limit and unreadOnly are.
C22_ListOwnNewestFirst ==
    /\ [](\A r \in Reqs :
            (reqs[r].pc \in {"listed", "done"} /\ reqs[r].op = "list") =>
              /\ \A k \in 1..Len(Listed(r)) :
                    /\ notifications[Listed(r)[k].id].userId = reqs[r].userId
                    /\ reqs[r].unreadOnly => ~Listed(r)[k].isRead
              /\ \A j, k \in 1..Len(Listed(r)) :
                    j < k => Listed(r)[j].createdAt >= Listed(r)[k].createdAt
              /\ Len(Listed(r)) <= AskedLimit(r))
    /\ [][\A r \in Reqs :
            (reqs[r].pc = "listed" /\ reqs'[r].pc = "done") =>
              reqs'[r].res.unreadCount = UnreadCount(reqs[r].userId)]_vars

(***************************************************************************)
(* More properties of the panic fan-out (SpecFanout).                      *)
(***************************************************************************)
\* The accounts the notifications of one panic call are addressed to.
NotifiedBy(call) == {notifications[i].userId : i \in SentBy(call)}

\* C23: the accounts notified by a panic whose batch was persisted are
\* exactly the accounts matched, by normalized email or trimmed phone, by the
\* guardian-role contacts among the session's contactIds and guardianIds;
\* no notification comes from an emergency-role contact.
C23_NotifiedAreGuardianAccounts ==
    \A r \in Reqs :
        (PanicAnswered(r) /\ ~reqs[r].failed)
            => NotifiedBy(reqs[r].call) = GuardianAccounts(reqs[r].sid)

\* The emergency-role contacts a session references.
EmergencyContacts(sid) ==
    {c \in walks[sid].contactIds \cup walks[sid].guardianIds :
        contacts[c].exists /\ contacts[c].type = "emergency"}

\* C24: every successful panic response carries emergencyContacts, the
\* number of emergency-role contacts among the session's contactIds and
\* guardianIds, and those contacts add no notification: every recipient of
\* the call is an account matched by a guardian-role contact.
C24_EmergencyCountReported ==
    \A r \in Reqs :
        (PanicAnswered(r) /\ reqs[r].res.status = 200)
            => /\ "emergencyContacts" \in DOMAIN reqs[r].res
               /\ reqs[r].res.emergencyContacts
                    = Cardinality(EmergencyContacts(reqs[r].sid))
               /\ NotifiedBy(reqs[r].call) \subseteq GuardianAccounts(reqs[r].sid)

(***************************************************************************)
(* Properties of the guardian's list of active walks (SpecPoll).           *)
(***************************************************************************)
\* The sessions whose guardianIds hold a guardian-role contact matching u.
GuardedBy(u) ==
    {sid \in SessionIds :
        /\ walks[sid].exists
        /\ \E c \in walks[sid].guardianIds :
              /\ contacts[c].exists
              /\ contacts[c].type = "guardian"
              /\ Matches(u, contacts[c])}

\* The step answers a guardian-active request of r.
GuardianActiveAnswers(r) ==
    /\ reqs'[r].pc = "done"
    /\ reqs'[r].op = "guardianActive"
    /\ reqs[r].pc # "done"

ValidationRefused ==
    /\ lastRes'.op \in {"start", "location"}
    /\ lastRes'.status = 400
    /\ UNCHANGED <<now, reqs, callSeq, failedPanics>>

\* C26: a request answered with a validation error changes no state: a
\* start with an invalid mode or a missing or malformed location creates no
\* session, and a location update refused for a missing location leaves
\* the session as it was.
C26_ValidationChangesNothing ==
    [][ValidationRefused => UNCHANGED <<walks, contacts, notifications>>]_vars

\* A start was refused while no session existed, and none exists.
C26_WitnessStart ==
    /\ lastRes.op = "start"
    /\ lastRes.status = 400
    /\ \A sid \in SessionIds : ~walks[sid].exists

\* A location update was refused on an active session.
C26_Witness ==
    /\ lastRes.op = "location"
    /\ lastRes.status = 400
    /\ walks[lastRes.sid].exists
    /\ walks[lastRes.sid].isActive
    /\ IsDef(walks[lastRes.sid].currentLocation)

(***************************************************************************)
(* Properties of concurrent requests on one session (SpecMove).            *)
(***************************************************************************)
\* The step applies the update of the location request of r.
LocationApplied(r) ==
    /\ reqs[r].pc = "sent"
    /\ reqs[r].op = "location"
    /\ reqs'[r].pc = "done"
    /\ reqs'[r].res.status = 200

\* C27: whatever the interleaving of location updates on an active session,
\* the stored currentLocation is always the (lat, lng, updatedAt) of one
\* call, written whole by the step that applied that call, and endLocation
\* is the same point as currentLocation while the session is active.
C27_LocationWrittenWhole ==
    /\ [](\A sid \in SessionIds :
            (walks[sid].exists /\ walks[sid].isActive
                /\ IsDef(walks[sid].currentLocation)) =>
              walks[sid].endLocation
                = Def(Loc(Val(walks[sid].currentLocation).lat,
                          Val(walks[sid].currentLocation).lng)))
    /\ [][\A sid \in SessionIds :
            (walks[sid].exists
                /\ walks'[sid].currentLocation # walks[sid].currentLocation) =>
              \E r \in Reqs :
                  /\ LocationApplied(r)
                  /\ reqs[r].sid = sid
                  /\ walks'[sid].currentLocation
                       = Def([lat |-> reqs[r].lat, lng |-> reqs[r].lng,
                              updatedAt |-> reqs[r].ts])]_vars

\* Two calls with different points and times were both applied; the one
\* applied last carries the earlier time.
C27_Witness ==
    /\ reqs["r1"].pc = "done" /\ reqs["r1"].op = "location"
    /\ reqs["r2"].pc = "done" /\ reqs["r2"].op = "location"
    /\ reqs["r1"].res.status = 200 /\ reqs["r2"].res.status = 200
    /\ reqs["r1"].lat # reqs["r2"].lat /\ reqs["r1"].lng # reqs["r2"].lng
    /\ reqs["r1"].ts < reqs["r2"].ts
    /\ walks["s1"].isActive
    /\ walks["s1"].currentLocation
         = Def([lat |-> reqs["r1"].lat, lng |-> reqs["r1"].lng,
                updatedAt |-> reqs["r1"].ts])

\* The step is the save() of the end request of r.
EndSaves(r) ==
    /\ reqs[r].pc = "found"
    /\ reqs[r].op = "end"
    /\ reqs'[r].pc = "done"

\* C28: an end call that interleaves with a check-in, a panic or a location
\* update erases none of them: the write of end leaves the checkIns and
\* panicEvents entries and the currentLocation that are stored when it is
\* applied, those written since end read the session included.
C28_EndKeepsConcurrentWrites ==
    [][\A r \in Reqs :
          EndSaves(r) =>
            /\ walks'[reqs[r].sid].checkIns = walks[reqs[r].sid].checkIns
            /\ walks'[reqs[r].sid].panicEvents = walks[reqs[r].sid].panicEvents
            /\ walks'[reqs[r].sid].currentLocation
                 = walks[reqs[r].sid].currentLocation]_vars

\* The session was ended by a call that read it before a check-in, a panic
\* and a location update were made, and all three are stored.
C28_Witness ==
    /\ reqs["r2"].pc = "done" /\ reqs["r2"].op = "end"
    /\ reqs["r2"].res.status = 200
    /\ ~walks["s1"].isActive
    /\ \E i \in 1..Len(walks["s1"].checkIns) :
          walks["s1"].checkIns[i] > reqs["r2"].res.endedAt
    /\ \E i \in 1..Len(walks["s1"].panicEvents) :
          walks["s1"].panicEvents[i] > reqs["r2"].res.endedAt
    /\ IsDef(walks["s1"].currentLocation)
    /\ Val(walks["s1"].currentLocation).updatedAt > reqs["r2"].res.endedAt

\* The step completes a check-in, panic or location request of r.
MutationAnswered(r) ==
    /\ reqs[r].pc = "sent"
    /\ reqs[r].op \in {"checkin", "panic", "location"}
    /\ reqs'[r].pc # "sent"

\* C29: no mutation of an ended session is observed: once isActive is
\* false, checkIns, panicEvents and currentLocation never change again, and
\* a check-in, panic or location update applied from then on is answered
\* NotFound.
C29_EndedIsFrozen ==
    [][\A sid \in SessionIds :
          (walks[sid].exists /\ ~walks[sid].isActive) =>
            /\ walks'[sid].checkIns = walks[sid].checkIns
            /\ walks'[sid].panicEvents = walks[sid].panicEvents
            /\ walks'[sid].currentLocation = walks[sid].currentLocation
            /\ \A r \in Reqs :
                  (MutationAnswered(r) /\ reqs[r].sid = sid) =>
                    /\ reqs'[r].pc = "done"
                    /\ reqs'[r].res.status = 404]_vars

\* A location update begun before the end was written was refused after it.
C29_Witness ==
    /\ reqs["r1"].pc = "done" /\ reqs["r1"].op = "location"
    /\ reqs["r1"].res.status = 404
    /\ walks["s1"].exists
    /\ ~walks["s1"].isActive
    /\ reqs["r1"].ts < Val(walks["s1"].endTime)

(***************************************************************************)
(* One more property of the live location (SpecLive).                      *)
(***************************************************************************)
\* The caller owns no session and is guardian of none.
Stranger(u) ==
    \A sid \in SessionIds :
        walks[sid].exists =>
            /\ walks[sid].userId # u
            /\ ~IsGuardianOf(u, walks[sid])

\* C30: a caller who is neither the owner nor a guardian of any session
\* gets the same answer to a live-location request whether or not an active
\* session with the requested id exists: the answer given for a session id
\* that does not exist.
C30_StrangerLearnsNothing ==
    [][\A r \in Reqs :
          (/\ reqs'[r].pc = "done"
           /\ reqs'[r].op = "live"
           /\ reqs'[r] # reqs[r]
           /\ Stranger(reqs'[r].userId))
            => reqs'[r].res = LiveNotFound]_vars

(***************************************************************************)
(* The contacts a session may reference (SpecFanout).                      *)
(***************************************************************************)
\* The step answers a start request by creating session sid.
StartCreates(sid) ==
    /\ lastRes'.op = "start"
    /\ lastRes'.status = 201
    /\ ~walks[sid].exists
    /\ walks'[sid].exists

\* C31: start creates no session whose contactIds or guardianIds reference
\* a contact of another owner: such a request is rejected as invalid input.
C31_StartRejectsForeignContacts ==
    [][\A sid \in SessionIds :
          StartCreates(sid) =>
            \A c \in walks'[sid].contactIds \cup walks'[sid].guardianIds :
                contacts[c].exists => contacts[c].userId = walks'[sid].userId]_vars

(***************************************************************************)
(* Properties of the notification sink (SpecSink).                         *)
(***************************************************************************)
\* A notification without its read state.
Content(n) == [n EXCEPT !.isRead = FALSE, !.readAt = Undefined]

\* C32: the sink is append-only with a one-way read flag: no step removes
\* a notification or changes its recipient, type, title, message, walkId
\* or metadata, and a notification that is read stays read.
C32_SinkAppendOnly ==
    [][/\ Len(notifications') >= Len(notifications)
       /\ \A i \in 1..Len(notifications) :
             /\ Content(notifications'[i]) = Content(notifications[i])
             /\ notifications[i].isRead => notifications'[i].isRead]_vars

\* A notification of an earlier panic is read, one of a later panic is not,
\* and one insertMany failed part-way.
C32_Witness ==
    /\ lastRes.op = "read"
    /\ lastRes.status = 200
    /\ \E i, j \in 1..Len(notifications) :
          /\ notifications[i].call < notifications[j].call
          /\ notifications[i].isRead
          /\ ~notifications[j].isRead
    /\ failedPanics # {}

\* The read state of the notifications stored before the step.
ReadState(store, i) == <<store[i].isRead, store[i].readAt>>

\* The step answers a mark-read or a mark-all-read request.
ReadRequestAnswered ==
    /\ lastRes'.op \in {"read", "readAll"}
    /\ UNCHANGED <<now, walks, contacts, reqs, callSeq, failedPanics>>

\* The step is one of a panic request.
PanicSteps ==
    \E r \in Reqs :
        /\ reqs'[r] # reqs[r]
        /\ reqs'[r].pc # "idle"
        /\ reqs'[r].op = "panic"

\* C39: read state is isolated per recipient: markRead and markAllRead of
\* one user leave isRead and readAt of every other recipient's
\* notifications as they are, and no step of a panic changes the read state
\* of a notification already stored.
C39_ReadStatePerRecipient ==
    [][/\ ReadRequestAnswered =>
             \A i \in 1..Len(notifications) :
                 notifications[i].userId # lastRes'.userId
                    => ReadState(notifications', i) = ReadState(notifications, i)
       /\ PanicSteps =>
             \A i \in 1..Len(notifications) :
                 ReadState(notifications', i) = ReadState(notifications, i)]_vars

\* One account marked its inbox read while another account's notification
\* of the same panic stays unread.
C39_Witness ==
    /\ lastRes.op = "readAll"
    /\ lastRes.modified > 0
    /\ \E i, j \in 1..Len(notifications) :
          /\ notifications[i].call = notifications[j].call
          /\ notifications[i].userId = lastRes.userId
          /\ notifications[i].isRead
          /\ notifications[j].userId # lastRes.userId
          /\ ~notifications[j].isRead

\* C40: for every notification, readAt is set if and only if isRead is
\* true.
C40_ReadAtIffRead ==
    \A i \in 1..Len(notifications) :
        IsDef(notifications[i].readAt) <=> notifications[i].isRead

\* Notifications read one by one, read in bulk and unread are all stored.
C40_Witness ==
    /\ \E i \in 1..Len(notifications) : ~notifications[i].isRead
    /\ \E i \in 1..Len(notifications) : notifications[i].isRead
    /\ lastRes.op = "readAll"
    /\ lastRes.modified > 0

(***************************************************************************)
(* What a session keeps from its start (SpecMove).                         *)
(***************************************************************************)
\* The fields given at start.
StartFields(w) ==
    <<w.userId, w.mode, w.startTime, w.startLocation, w.contactIds, w.guardianIds>>

\* C33: no step deletes a session, and no step of a location update, a
\* check-in, a panic or an end changes its owner, mode, startTime,
\* startLocation, contactIds or guardianIds.
C33_StartFieldsKept ==
    [][\A sid \in SessionIds :
          walks[sid].exists =>
            /\ walks'[sid].exists
            /\ StartFields(walks'[sid]) = StartFields(walks[sid])]_vars

\* An ended session that was moved, checked in and panicked on still has
\* the start time and place its start response reported.
C33_Witness ==
    /\ walks["s1"].exists
    /\ ~walks["s1"].isActive
    /\ IsDef(walks["s1"].currentLocation)
    /\ Len(walks["s1"].checkIns) > 0
    /\ Len(walks["s1"].panicEvents) > 0
    /\ lastRes.op = "start"
    /\ walks["s1"].startTime = lastRes.startedAt
    /\ walks["s1"].startLocation = lastRes.location
    /\ Val(walks["s1"].endTime) > walks["s1"].startTime

(***************************************************************************)
(* Every request is answered (SpecRespond).                                *)
(***************************************************************************)
\* The request in slot r waits for the store.
InFlight(r) == reqs[r].pc \notin {"idle", "done"}

\* C34: every request eventually gets its one response, success or error:
\* a request that waits for the store is answered in the end, an answered
\* request holds exactly its response, and the one-step requests are
\* answered by the step that serves them; a panic for which no guardian
\* resolves is answered like any other.
C34_EveryRequestAnswered ==
    /\ [](\A r \in Reqs :
            reqs[r].pc = "done" =>
                /\ "res" \in DOMAIN reqs[r]
                /\ "status" \in DOMAIN reqs[r].res)
    /\ [](lastRes.op # "none" => "status" \in DOMAIN lastRes)
    /\ \A r \in Reqs : InFlight(r) ~> reqs[r].pc = "done"

\* A panic for which no guardian resolved was answered.
C34_Witness ==
    /\ reqs["r1"].pc = "done"
    /\ reqs["r1"].op = "panic"
    /\ reqs["r1"].res.status = 200
    /\ reqs["r1"].res.notificationsSent = 0
    /\ Len(reqs["r1"].batch) = 0

\* C38: every successful live-location response describes the active
\* session that was read for a caller who owns it or guards it: its
\* location is the session's currentLocation if one was recorded and its
\* startLocation otherwise, and its counters are the lengths of the
\* session's checkIns and panicEvents; a session id with no session gets
\* no successful response.
C38_LiveDescribesSession ==
    [][\A r \in Reqs :
          (/\ reqs'[r].pc = "done"
           /\ reqs[r].pc # "done"
           /\ reqs'[r].op = "live"
           /\ reqs'[r].res.status = 200) =>
             /\ reqs[r].pc = "found"
             /\ walks[reqs'[r].sid].exists
             /\ LET walk == reqs[r].walk
                    res == reqs'[r].res
                IN /\ walk.isActive
                   /\ \/ walk.userId = reqs[r].userId
                      \/ LiveGuardianContacts(reqs[r].userId, walk) # {}
                   /\ res.location = IF IsDef(walk.currentLocation)
                                     THEN Val(walk.currentLocation)
                                     ELSE walk.startLocation
                   /\ res.checkIns = Len(walk.checkIns)
                   /\ res.panicEvents = Len(walk.panicEvents)]_vars

\* The accounts the live-location handler answers with the location of a
\* session.
LiveReaders(walk) == {u \in Users : LiveOutcome(u, walk).status = 200}

\* The accounts, other than the owner, the live-location handler accepts
\* as guardians of a session.
LiveGuardians(walk) ==
    {u \in Users :
        /\ u # walk.userId
        /\ CallerConditions(u) # {}
        /\ LiveGuardianContacts(u, walk) # {}}

C36_LiveGuardiansNotified ==
    \A r \in Reqs :
        (PanicAnswered(r) /\ ~reqs[r].failed /\ walks[reqs[r].sid].isActive)
            => LiveGuardians(walks[reqs[r].sid]) \subseteq NotifiedBy(reqs[r].call)

\* The ids of the sessions GET /walk/guardian/active lists for u in the
\* current state.
GuardianActiveIds(u) ==
    IF CallerConditions(u) # {} /\ GuardianQuery(u) # {}
    THEN ActiveWalksNaming(GuardianQuery(u))
    ELSE {}

\* C37: the guardian's list and the live-location authorization agree on
\* one state: every session the guardian-active query returns to a caller
\* is one the live-location query answers for that caller, and every
\* active session whose live location is answered to a caller other than
\* its owner is in that caller's guardian-active list.
C37_PollAndLiveAgree ==
    [][\A r \in Reqs :
          /\ (GuardianActiveAnswers(r)
                /\ reqs[r].pc = "contacts"
                /\ reqs[r].guardianContactIds = GuardianQuery(reqs[r].userId)) =>
                \A k \in 1..Len(reqs'[r].res.walks) :
                    LiveOutcome(reqs'[r].userId,
                                walks[reqs'[r].res.walks[k].id]).status = 200
          /\ (/\ reqs[r].pc = "found"
              /\ reqs[r].op = "live"
              /\ reqs'[r].pc = "done"
              /\ reqs'[r].res.status = 200
              /\ reqs[r].userId # reqs[r].walk.userId
              /\ walks[reqs[r].sid] = reqs[r].walk) =>
                reqs[r].sid \in GuardianActiveIds(reqs[r].userId)]_vars

\* C37 witness: the account u2 has been given a non-empty list of walks it
\* guards and the live location of the session.
C37_Witness ==
    /\ reqs["r1"].pc = "done"
    /\ reqs["r1"].op = "guardianActive"
    /\ reqs["r1"].userId = "u2"
    /\ Len(reqs["r1"].res.walks) > 0
    /\ reqs["r2"].pc = "done"
    /\ reqs["r2"].op = "live"
    /\ reqs["r2"].userId = "u2"
    /\ reqs["r2"].res.status = 200

====
